---- MODULE Spec2Model ----
(***************************************************************************)
(* A model of the key-value server of src/src/phase5/elserver.cpp and of   *)
(* its chaining hash map with incremental rehashing, src/src/hashtable.cpp.*)
(*                                                                         *)
(* Byte strings are sequences of numbers 0..255.  A 32-bit hash code is    *)
(* kept as the pair <<hi, lo>> of its 16-bit halves, because TLC's        *)
(* integers are 32-bit signed; every bucket index hashcode & mask only     *)
(* reads the low half as long as the capacity is at most 2^16.             *)
(***************************************************************************)
EXTENDS Integers, Sequences, FiniteSets, TLC

VARIABLES
  db,        \* the global DB db: its HMap (elserver.cpp:29)
  ballast,   \* ghost: the number of ballast keys set before Init
  shadow,    \* ghost: what the commands since Init did to each key they named
             \*   (full byte-string keys): <<"set", v>> or <<"del">>
  inserted,  \* ghost: keys handed to hm_insert since Init and not returned since
  deleted,   \* ghost: keys returned by hm_delete since Init and not inserted since
  lastCmd,   \* ghost: the command vector of the last process_request call
  lastResp,  \* ghost: the RequestResponse of the last process_request call
  nops,      \* ghost: number of commands executed since Init
  conn,      \* the Connection of the one client (elserver.h:19-35), with
             \*   open = whether it is still in fd2Connection
  wire,      \* bytes the client has sent that have not reached the server's socket
  rxq,       \* bytes in the socket's receive queue, readable by read()
  out,       \* bytes write() has accepted on the socket, in order
  peerClosed,\* the client has shut its side down: read() reports EOF after rxq
  crashed,   \* the server process has terminated
  stream,    \* ghost: the sequence of messages the client sends
  log,       \* ghost: the try_one_request calls of the last read_all, in order
  iook,      \* ghost: every write() so far accepted all the bytes offered and
             \*   no read() failed
  codec,     \* the single try_one_request call of SpecCodec: its input and result
  flushed,   \* the single flush_write_buffer call of SpecFlush: the results
             \*   of its write() calls, and its result
  running,   \* volatile bool running (elserver.cpp:28)
  pc,        \* where main is: "wait" = at epoll_wait, "batch" = in the for
             \*   loop over events[], "exited" = returned
  events,    \* the entries of events[] the for loop has not handled yet
  fd2Connection, \* the map of main: client fd -> Connection
  epoll,     \* the interest list of epoll_fd: fd -> the flags it is registered with
  socks,     \* the client connections as the kernel sees them, by the order
             \*   in which the clients connected
  backlog,   \* the connections that wait in the listen queue for accept()
  lerr,      \* an error condition is pending on the listening socket
  werrno,    \* ghost: errno of the last epoll_wait call, 0 when it succeeded
  handled,   \* ghost: the error event the step just taken has handled
             \*   ("error"), or the result <= 0 of read_all or < 0 of
             \*   flush_write_buffer it has met ("io"), and the fd
  budget     \* ghost: how many connections, messages and faults the
             \*   environment may still make

mapVars == <<ballast, shadow, inserted, deleted, lastCmd, lastResp, nops>>
connVars == <<conn, wire, rxq, out, peerClosed, crashed, stream, log, iook>>
loopVars ==
  <<running, pc, events, fd2Connection, epoll, socks, backlog, lerr, werrno,
    handled, budget>>
vars == <<db, mapVars, connVars, codec, flushed, loopVars>>

-----------------------------------------------------------------------------
(* Program constants *)

k_resizing_work == 128
k_max_load_factor == 8
MAX_MSG_SIZE == 1024

(* Bounds of the model *)

\* commands executed after Init in SpecMap
MaxOps == 3

\* connections the clients of SpecLoop make
MaxConnects == 2

\* messages the clients of SpecLoop send
MaxLoopSends == 2

\* faults the environment of SpecLoop raises: connection resets, errors on
\* the listening socket, signals that interrupt epoll_wait
MaxFaults == 1

\* write() calls whose results SpecFlush chooses
MaxWrites == 4

-----------------------------------------------------------------------------
(* Byte-string literals of the source *)

S_set == <<115, 101, 116>>
S_get == <<103, 101, 116>>
S_del == <<100, 101, 108>>
S_key_not_found == <<107, 101, 121, 32, 110, 111, 116, 32, 102, 111, 117, 110, 100, 10>>
S_unknown_command == <<117, 110, 107, 110, 111, 119, 110, 32, 99, 111, 109, 109, 97, 110, 100, 10>>
S_invalid_set == <<105, 110, 118, 97, 108, 105, 100, 32, 110, 117, 109, 98, 101, 114, 32, 111, 102, 32, 97, 114, 103, 117, 109, 101, 110, 116, 115, 44, 32, 115, 101, 116, 32, 114, 101, 113, 117, 105, 114, 101, 115, 32, 116, 119, 111, 32, 97, 114, 103, 117, 109, 101, 110, 116, 115, 10>>
S_invalid_get == <<105, 110, 118, 97, 108, 105, 100, 32, 110, 117, 109, 98, 101, 114, 32, 111, 102, 32, 97, 114, 103, 117, 109, 101, 110, 116, 115, 10>>
S_invalid_del == <<105, 110, 118, 97, 108, 105, 100, 32, 110, 117, 109, 98, 101, 114, 32, 111, 102, 32, 97, 114, 103, 117, 109, 101, 110, 116, 115, 44, 32, 100, 101, 108, 32, 114, 101, 113, 117, 105, 114, 101, 115, 32, 111, 110, 101, 32, 97, 114, 103, 117, 109, 101, 110, 116, 10>>
S_get_sp == <<103, 101, 116, 32>>
S_eq == <<32, 61, 32>>
S_nl == <<10>>
S_set_sp == <<115, 101, 116, 32>>
S_to == <<32, 116, 111, 32>>
S_key_sp == <<107, 101, 121, 32>>
S_not_found == <<32, 110, 111, 116, 32, 102, 111, 117, 110, 100, 10>>
S_deleted == <<32, 100, 101, 108, 101, 116, 101, 100, 10>>
S_invalid_command == <<105, 110, 118, 97, 108, 105, 100, 32, 99, 111, 109, 109, 97, 110, 100, 10>>
S_oversized_request == <<111, 118, 101, 114, 115, 105, 122, 101, 100, 32, 114, 101, 113, 117, 101, 115, 116, 10>>

-----------------------------------------------------------------------------
(* C strings and the hash function *)

\* the element of a one-element set: TheOne({e(x) : x \in {v}}) is e(v),
\* with v computed once
TheOne(S) == CHOOSE x \in S : TRUE

\* strlen of the C string a std::string's c_str() points to: the number of
\* bytes before the first zero byte (the terminator behind the last byte of
\* s when s holds none)
strlen(s) ==
  IF \A i \in DOMAIN s : s[i] # 0 THEN Len(s)
  ELSE (CHOOSE i \in DOMAIN s : s[i] = 0 /\ \A j \in 1..(i - 1) : s[j] # 0) - 1

\* what a callee sees of std::string s through the const char* s.c_str()
c_str(s) == SubSeq(s, 1, strlen(s))

RECURSIVE BitXor(_, _)
\* a ^ b on non-negative integers
BitXor(a, b) ==
  IF a = 0 THEN b
  ELSE IF b = 0 THEN a
  ELSE (((a % 2) + (b % 2)) % 2) + 2 * BitXor(a \div 2, b \div 2)

RECURSIVE str_hash_from(_, _)
\* the loop of str_hash on the uint32_t h = <<hi, lo>>:
\* h = (h ^ data[i]) * 0x01000193, modulo 2^32; the iterations over data
\* are those over its first half followed by those over its second half
str_hash_from(h, data) ==
  IF h[1] < 0 \/ data = <<>> THEN h
  ELSE IF Len(data) = 1
  THEN LET lo == BitXor(h[2], Head(data))
           t  == lo * 403
           nlo == t % 65536
           nhi == (h[1] * 403 + lo * 256 + (t \div 65536)) % 65536
       IN <<nhi, nlo>>
  ELSE str_hash_from(str_hash_from(h, SubSeq(data, 1, Len(data) \div 2)),
                     SubSeq(data, (Len(data) \div 2) + 1, Len(data)))

\* FNV hash, seeded with 0x811C9DC5
str_hash(data) == str_hash_from(<<33052, 40389>>, data)

-----------------------------------------------------------------------------
(* The hash table: src/src/hashtable.cpp *)

\* HashTable{}: table = NULL, mask = 0, size = 0
NullTable == [alloc |-> FALSE, tab |-> <<>>, mask |-> 0, size |-> 0]

\* the result of a lookup that found nothing
NULL == <<>>

initHashTable(size) ==
  [alloc |-> TRUE, tab |-> [i \in 1..size |-> <<>>], mask |-> size - 1, size |-> 0]

\* hashcode & mask, for a mask below 2^16
BucketOf(hashcode, mask) == hashcode[2] % (mask + 1)

\* a variant that links every node into the chain of bucket 0
h_insert_bucket_zero(hashtable, node) ==
  [hashtable EXCEPT !.tab[1] = <<node>> \o @, !.size = @ + 1]

h_insert(hashtable, node) ==
  LET pos == BucketOf(node.hashcode, hashtable.mask)
  IN [hashtable EXCEPT !.tab[pos + 1] = <<node>> \o @, !.size = @ + 1]

\* the comparator of the server: equality of the entries' keys
cmp(lhs, rhs) == lhs.key = rhs.key

RECURSIVE ChainFind(_, _, _)
\* the walk of h_lookup along one chain: the index of the first node that
\* cmp accepts, 0 when there is none
ChainFind(chain, node, i) ==
  IF i > Len(chain) THEN 0
  ELSE IF cmp(chain[i], node) THEN i
  ELSE ChainFind(chain, node, i + 1)

\* the place <<bucket, index in chain>> of the node found, or NULL
h_lookup(hashtable, node) ==
  IF ~hashtable.alloc THEN NULL
  ELSE LET bucket == BucketOf(node.hashcode, hashtable.mask)
           i == ChainFind(hashtable.tab[bucket + 1], node, 1)
       IN IF i = 0 THEN NULL ELSE <<bucket, i>>

\* the node at a place returned by h_lookup
NodeAt(hashtable, from) == hashtable.tab[from[1] + 1][from[2]]

RemoveAt(chain, i) == SubSeq(chain, 1, i - 1) \o SubSeq(chain, i + 1, Len(chain))

\* a variant that unlinks the node and leaves the size as it was
h_detach_keeps_size(hashtable, from) ==
  [ht |-> [hashtable EXCEPT !.tab[from[1] + 1] = RemoveAt(@, from[2])],
   node |-> NodeAt(hashtable, from)]

\* a variant that unlinks the head of the chain the node is in
h_detach_head_of_chain(hashtable, from) ==
  [ht |-> [hashtable EXCEPT !.tab[from[1] + 1] = Tail(@), !.size = @ - 1],
   node |-> NodeAt(hashtable, <<from[1], 1>>)]

\* unlinks the node at place from; the table after it and the node
h_detach(hashtable, from) ==
  [ht |-> [hashtable EXCEPT !.tab[from[1] + 1] = RemoveAt(@, from[2]),
                            !.size = @ - 1],
   node |-> NodeAt(hashtable, from)]

\* a variant of the loop body that does not count the nodes it moves
hm_resizing_iter_uncounted(s) ==
  LET hmap == s[1]
  IN IF hmap.h2.size > 0 /\ ~hmap.oob
     THEN IF hmap.resizing_pos > hmap.h2.mask
          THEN <<[hmap EXCEPT !.oob = TRUE], 0>>
          ELSE IF hmap.h2.tab[hmap.resizing_pos + 1] = <<>>
          THEN <<[hmap EXCEPT !.resizing_pos = @ + 1], 0>>
          ELSE <<[hmap EXCEPT !.h2.tab[hmap.resizing_pos + 1] = Tail(@),
                              !.h2.size = @ - 1,
                              !.h1.tab[(hmap.h2.tab[hmap.resizing_pos + 1][1].hashcode[2]
                                          % (hmap.h1.mask + 1)) + 1] =
                                 <<hmap.h2.tab[hmap.resizing_pos + 1][1]>> \o @,
                              !.h1.size = @ + 1,
                              !.moved = @ + 1], 0>>
     ELSE s

\* one evaluation of the while loop of hm_resizing on <<hmap, nodes_moved>>:
\* the test, and the body when the test holds.  Indexing h2.table at a
\* resizing_pos beyond the table is recorded in oob and ends the loop.
hm_resizing_iter(s) ==
  LET hmap == s[1]
      nodes_moved == s[2]
  IN IF nodes_moved < k_resizing_work /\ hmap.h2.size > 0 /\ ~hmap.oob
     THEN IF hmap.resizing_pos > hmap.h2.mask
          THEN <<[hmap EXCEPT !.oob = TRUE], nodes_moved>>
          ELSE IF hmap.h2.tab[hmap.resizing_pos + 1] = <<>>
          THEN <<[hmap EXCEPT !.resizing_pos = @ + 1], nodes_moved>>
          ELSE LET d == h_detach(hmap.h2, <<hmap.resizing_pos, 1>>)
               IN <<[hmap EXCEPT !.h2 = d.ht,
                                 !.h1 = h_insert(hmap.h1, d.node),
                                 !.moved = @ + 1],
                    nodes_moved + 1>>
     ELSE s

RECURSIVE hm_resizing_loop(_, _)
\* n evaluations of the loop in sequence (halved, to keep the evaluation
\* shallow); the loop has ended once its test fails
hm_resizing_loop(s, n) ==
  IF n = 0 \/ s[2] >= k_resizing_work \/ s[1].h2.size = 0 \/ s[1].oob THEN s
  ELSE IF n = 1 THEN hm_resizing_iter(s)
  ELSE hm_resizing_loop(hm_resizing_loop(s, n \div 2), n - (n \div 2))

\* the loop runs at most k_resizing_work moves and one skip per bucket
hm_resizing(hmap) ==
  IF ~hmap.h2.alloc THEN hmap
  ELSE TheOne({ IF m.h2.size = 0 THEN [m EXCEPT !.h2 = NullTable] ELSE m
                : m \in {hm_resizing_loop(<<hmap, 0>>,
                                          k_resizing_work + hmap.h2.mask + 1)[1]} })

\* a lookup that never consults h2
hm_lookup_h1_only(hmap, node) ==
  LET m == hm_resizing(hmap)
      from1 == h_lookup(m.h1, node)
  IN IF from1 # NULL THEN [hmap |-> m, tbl |-> 1, from |-> from1]
     ELSE [hmap |-> m, tbl |-> 0, from |-> NULL]

\* the map after the rehash step, and where the node was found:
\* tbl = 1 (h1), 2 (h2) or 0 (not found)
hm_lookup(hmap, node) ==
  TheOne({ LET from1 == h_lookup(m.h1, node)
               from2 == h_lookup(m.h2, node)
           IN IF from1 # NULL THEN [hmap |-> m, tbl |-> 1, from |-> from1]
              ELSE IF from2 # NULL THEN [hmap |-> m, tbl |-> 2, from |-> from2]
              ELSE [hmap |-> m, tbl |-> 0, from |-> NULL]
           : m \in {hm_resizing(hmap)} })

\* the map after the rehash step and the detach, and the node detached
hm_delete(hmap, node) ==
  TheOne({ LET from1 == h_lookup(m.h1, node)
               from2 == h_lookup(m.h2, node)
           IN IF from1 # NULL
              THEN LET d == h_detach(m.h1, from1)
                   IN [hmap |-> [m EXCEPT !.h1 = d.ht], found |-> TRUE, node |-> d.node]
              ELSE IF from2 # NULL
              THEN LET d == h_detach(m.h2, from2)
                   IN [hmap |-> [m EXCEPT !.h2 = d.ht], found |-> TRUE, node |-> d.node]
              ELSE [hmap |-> m, found |-> FALSE, node |-> NULL]
           : m \in {hm_resizing(hmap)} })

\* hm_trigger_rehashing with a primary table of four times the capacity
hm_trigger_rehashing_quadruple(hmap) ==
  [hmap EXCEPT !.h2 = hmap.h1,
               !.h1 = initHashTable((hmap.h1.mask + 1) * 4),
               !.resizing_pos = 0]

hm_trigger_rehashing(hmap) ==
  [hmap EXCEPT !.h2 = hmap.h1,
               !.h1 = initHashTable((hmap.h1.mask + 1) * 2),
               !.resizing_pos = 0]

\* an insert that starts the rehash one entry later:
\* capacity * k_max_load_factor < size
hm_insert_triggers_late(hmap, node) ==
  LET m0 == IF ~hmap.h1.alloc THEN [hmap EXCEPT !.h1 = initHashTable(4)] ELSE hmap
      m1 == [m0 EXCEPT !.h1 = h_insert(m0.h1, node)]
      m2 == IF ~m1.h2.alloc /\ (m1.h1.mask + 1) * k_max_load_factor < m1.h1.size
            THEN hm_trigger_rehashing(m1)
            ELSE m1
  IN hm_resizing(m2)

\* an insert that links the node into secondary while a rehash is in
\* progress
hm_insert_into_secondary(hmap, node) ==
  LET m0 == IF ~hmap.h1.alloc THEN [hmap EXCEPT !.h1 = initHashTable(4)] ELSE hmap
      m1 == IF m0.h2.alloc
            THEN [m0 EXCEPT !.h2 = h_insert(m0.h2, node)]
            ELSE [m0 EXCEPT !.h1 = h_insert(m0.h1, node)]
      m2 == IF ~m1.h2.alloc /\ (m1.h1.mask + 1) * k_max_load_factor <= m1.h1.size
            THEN hm_trigger_rehashing(m1)
            ELSE m1
  IN hm_resizing(m2)

\* an insert that never starts a rehash
hm_insert_never_rehashes(hmap, node) ==
  [hmap EXCEPT !.h1 = h_insert(IF hmap.h1.alloc THEN hmap.h1 ELSE initHashTable(4), node)]

hm_insert(hmap, node) ==
  LET m0 == IF ~hmap.h1.alloc THEN [hmap EXCEPT !.h1 = initHashTable(4)] ELSE hmap
      m1 == [m0 EXCEPT !.h1 = h_insert(m0.h1, node)]
      m2 == IF ~m1.h2.alloc /\ (m1.h1.mask + 1) * k_max_load_factor <= m1.h1.size
            THEN hm_trigger_rehashing(m1)
            ELSE m1
  IN hm_resizing(m2)

\* the HMap of the global db before the first command.  moved (ghost)
\* counts the nodes hm_resizing has moved, oob (ghost) records an
\* out-of-bounds index into h2.table.
EmptyHMap ==
  [h1 |-> NullTable, h2 |-> NullTable, resizing_pos |-> 0,
   moved |-> 0, oob |-> FALSE]

-----------------------------------------------------------------------------
(* The command dispatcher: src/src/phase5/elserver.cpp *)

\* Each do_* takes the map and the C strings it is called with, and gives
\* the map after it, the response body, and (ghost) which key it handed
\* to hm_insert or got back from hm_delete.

do_get(hmap, key) ==
  LET k == c_str(key)
      entry == [key |-> k, value |-> <<>>, hashcode |-> str_hash(k)]
  IN TheOne({ IF r.tbl = 0
              THEN [hmap |-> r.hmap, status |-> "KEY_NOT_FOUND",
                    response |-> S_key_not_found, inserted |-> {}, deleted |-> {}]
              ELSE LET t == IF r.tbl = 1 THEN r.hmap.h1 ELSE r.hmap.h2
                       value == NodeAt(t, r.from).value
                   IN [hmap |-> r.hmap, status |-> "SUCCESS",
                       response |-> S_get_sp \o k \o S_eq \o value \o S_nl,
                       inserted |-> {}, deleted |-> {}]
              : r \in {hm_lookup(hmap, entry)} })

\* a set that inserts a new entry without looking for an existing one
do_set_always_inserts(hmap, key, value) ==
  LET k == c_str(key)
      v == c_str(value)
      entry == [key |-> k, value |-> v, hashcode |-> str_hash(k)]
  IN [hmap |-> hm_insert(hm_resizing(hmap), entry),
      status |-> "SUCCESS", response |-> S_set_sp \o k \o S_to \o v \o S_nl,
      inserted |-> {k}, deleted |-> {}]

do_set(hmap, key, value) ==
  LET k == c_str(key)
      v == c_str(value)
      entry == [key |-> k, value |-> v, hashcode |-> str_hash(k)]
      resp == S_set_sp \o k \o S_to \o v \o S_nl
  IN TheOne({ IF r.tbl = 1
              THEN [hmap |-> [r.hmap EXCEPT !.h1.tab[r.from[1] + 1][r.from[2]].value = v],
                    status |-> "SUCCESS", response |-> resp,
                    inserted |-> {}, deleted |-> {}]
              ELSE IF r.tbl = 2
              THEN [hmap |-> [r.hmap EXCEPT !.h2.tab[r.from[1] + 1][r.from[2]].value = v],
                    status |-> "SUCCESS", response |-> resp,
                    inserted |-> {}, deleted |-> {}]
              ELSE [hmap |-> hm_insert(r.hmap, entry),
                    status |-> "SUCCESS", response |-> resp,
                    inserted |-> {k}, deleted |-> {}]
              : r \in {hm_lookup(hmap, entry)} })

do_del(hmap, key) ==
  LET k == c_str(key)
      entry == [key |-> k, value |-> <<>>, hashcode |-> str_hash(k)]
  IN TheOne({ IF r.tbl = 0
              THEN [hmap |-> r.hmap, status |-> "KEY_NOT_FOUND",
                    response |-> S_key_sp \o k \o S_not_found,
                    inserted |-> {}, deleted |-> {}]
              ELSE TheOne({ [hmap |-> d.hmap, status |-> "SUCCESS",
                             response |-> S_key_sp \o k \o S_deleted,
                             inserted |-> {},
                             deleted |-> IF d.found THEN {d.node.key} ELSE {}]
                            : d \in {hm_delete(r.hmap, entry)} })
              : r \in {hm_lookup(hmap, entry)} })

\* a variant that dispatches on the verb without looking at the arity
process_request_any_arity(hmap, command) ==
  IF Len(command) >= 2 /\ command[1] = S_get THEN do_get(hmap, command[2])
  ELSE IF Len(command) >= 2 /\ command[1] = S_del THEN do_del(hmap, command[2])
  ELSE [hmap |-> hmap, status |-> "UNKNOWN_COMMAND", response |-> S_unknown_command,
        inserted |-> {}, deleted |-> {}]

process_request(hmap, command) ==
  LET same(status, response) ==
        [hmap |-> hmap, status |-> status, response |-> response,
         inserted |-> {}, deleted |-> {}]
  IN IF command = <<>> THEN same("UNKNOWN_COMMAND", S_unknown_command)
     ELSE IF command[1] = S_set
     THEN IF Len(command) # 3 THEN same("ERROR", S_invalid_set)
          ELSE do_set(hmap, command[2], command[3])
     ELSE IF command[1] = S_get
     THEN IF Len(command) # 2 THEN same("ERROR", S_invalid_get)
          ELSE do_get(hmap, command[2])
     ELSE IF command[1] = S_del
     THEN IF Len(command) # 2 THEN same("ERROR", S_invalid_del)
          ELSE do_del(hmap, command[2])
     ELSE same("UNKNOWN_COMMAND", S_unknown_command)

-----------------------------------------------------------------------------
(* Connection: the per-client buffers (elserver.h) *)

\* sizeof(conn->read_buffer) = sizeof(conn->write_buffer)
BufCap == 4 + MAX_MSG_SIZE

\* A Connection after its constructor.  read_buffer holds the bytes stored
\* so far, up to the highest offset ever written: the bytes behind it are
\* the zeros of the constructor's memset, and the bytes between
\* read_buffer_size and Len(read_buffer) are what earlier reads left there.
\* write_buffer holds the bytes [0, write_buffer_size).
\* Ghost fields: overread = a byte at or behind read_buffer_size has been
\* interpreted; overflow = a byte has been stored behind the end of
\* write_buffer; open = the Connection has not been destroyed.
NewConnection ==
  [fd |-> -1, read_buffer_size |-> 0, write_buffer_size |-> 0, bytes_sent |-> 0,
   read_buffer |-> <<>>, write_buffer |-> <<>>,
   overread |-> FALSE, overflow |-> FALSE, open |-> FALSE]

\* the char at read_buffer + i; write_buffer follows read_buffer in the struct
ByteAt(c, i) ==
  IF i < Len(c.read_buffer) THEN c.read_buffer[i + 1]
  ELSE IF i < BufCap THEN 0
  ELSE IF i - BufCap < Len(c.write_buffer) THEN c.write_buffer[i - BufCap + 1]
  ELSE 0

\* the n chars from read_buffer + pos on
BytesAt(c, pos, n) == [k \in 1..n |-> ByteAt(c, pos + k - 1)]

\* a variant that reads the four bytes in little-endian order (no ntohl)
Int32At_no_ntohl(c, pos) ==
  LET b0 == ByteAt(c, pos + 3)
      b1 == ByteAt(c, pos + 2)
      b2 == ByteAt(c, pos + 1)
      b3 == ByteAt(c, pos)
  IN ((IF b0 >= 128 THEN b0 - 256 ELSE b0) * 16777216) + (b1 * 65536) + (b2 * 256) + b3

\* memcpy(&x, read_buffer + pos, 4); x = ntohl(x), x an int32_t
Int32At(c, pos) ==
  LET b0 == ByteAt(c, pos)
      b1 == ByteAt(c, pos + 1)
      b2 == ByteAt(c, pos + 2)
      b3 == ByteAt(c, pos + 3)
  IN ((IF b0 >= 128 THEN b0 - 256 ELSE b0) * 16777216) + (b1 * 65536) + (b2 * 256) + b3

\* the four bytes of htonl(n), 0 <= n < 2^31
htonl(n) ==
  <<(n \div 16777216) % 256, (n \div 65536) % 256, (n \div 256) % 256, n % 256>>

\* memcpy of a length-prefixed body to write_buffer + write_buffer_size,
\* without a test of the room left
AppendFrame(c, body) ==
  [c EXCEPT !.write_buffer = SubSeq(@, 1, c.write_buffer_size) \o htonl(Len(body)) \o body,
            !.write_buffer_size = @ + 4 + Len(body),
            !.overflow = @ \/ (c.write_buffer_size + 4 + Len(body) > BufCap)]

\* errno values of <errno.h>; the result of a write() call is the number
\* of bytes the socket took, or -errno for a call that returned -1
EINTR == 4
EAGAIN == 11
ECONNRESET == 104

\* what the socket does with the bytes write() offers it: it takes them all,
\* none (EAGAIN), half of them and then none, fails (rv < 0, errno neither
\* EINTR nor EAGAIN), or takes them all in two calls that signals interrupt
WriteOutcomes == {"all", "none", "half", "error", "retried"}

\* the results of the write() calls of one flush_write_buffer call on c,
\* for each outcome; a write() of no bytes returns 0
WriteResults(wo, c) ==
  LET pending == c.write_buffer_size - c.bytes_sent
  IN IF wo = "error" THEN <<-ECONNRESET>>
     ELSE IF pending = 0 THEN <<0>>
     ELSE IF wo = "all" THEN <<pending>>
     ELSE IF wo = "retried" THEN <<-EINTR, 1, -EINTR, pending>>
     ELSE IF wo = "half" /\ pending >= 2 THEN <<pending \div 2, -EAGAIN>>
     ELSE <<-EAGAIN>>

\* a variant that makes one write() call and leaves bytes_sent as it was
flush_write_buffer_no_advance(c, results) ==
  IF results # <<>> /\ Head(results) > 0
  THEN [rv |-> 0, conn |-> c,
        sent |-> SubSeq(c.write_buffer, c.bytes_sent + 1,
                        IF c.bytes_sent + Head(results) > c.write_buffer_size
                        THEN c.write_buffer_size
                        ELSE c.bytes_sent + Head(results))]
  ELSE [rv |-> -1, conn |-> c, sent |-> <<>>]

\* a variant that, when the socket has taken all the pending bytes, sets
\* write_buffer_size to 0 and leaves bytes_sent behind the last byte sent
flush_write_buffer_no_reset(c, results) ==
  LET pending == c.write_buffer_size - c.bytes_sent
  IN IF results # <<>> /\ pending > 0 /\ Head(results) >= pending
     THEN [rv |-> 1,
           conn |-> [c EXCEPT !.write_buffer_size = 0, !.write_buffer = <<>>,
                              !.bytes_sent = c.write_buffer_size],
           sent |-> SubSeq(c.write_buffer, c.bytes_sent + 1, c.write_buffer_size)]
     ELSE [rv |-> 0, conn |-> c, sent |-> <<>>]

RECURSIVE flush_write_buffer(_, _)
\* flush_write_buffer: the while loop, results being the results of the
\* write() calls it makes, in order (a socket that has given them all takes
\* no more bytes: EAGAIN); write() takes at most the bytes it is offered.
\* [rv, conn, sent = the bytes the socket took]
flush_write_buffer(c, results) ==
  LET pending == c.write_buffer_size - c.bytes_sent
      rv == IF results = <<>> THEN -EAGAIN
            ELSE IF Head(results) > pending THEN pending
            ELSE Head(results)
  IN IF rv = -EINTR
     THEN flush_write_buffer(c, Tail(results))
     ELSE IF rv = -EAGAIN THEN [rv |-> 0, conn |-> c, sent |-> <<>>]
     ELSE IF rv < 0 THEN [rv |-> -1, conn |-> c, sent |-> <<>>]
     ELSE IF rv = 0 THEN [rv |-> -1, conn |-> c, sent |-> <<>>]
     ELSE IF c.bytes_sent + rv = c.write_buffer_size
     THEN [rv |-> 1,
           conn |-> [c EXCEPT !.write_buffer_size = 0, !.bytes_sent = 0,
                              !.write_buffer = <<>>],
           sent |-> SubSeq(c.write_buffer, c.bytes_sent + 1, c.write_buffer_size)]
     ELSE TheOne({ [f EXCEPT !.sent = SubSeq(c.write_buffer, c.bytes_sent + 1,
                                            c.bytes_sent + rv) \o @]
                   : f \in {flush_write_buffer([c EXCEPT !.bytes_sent = @ + rv],
                                               Tail(results))} })

-----------------------------------------------------------------------------
(* try_one_request *)

\* a variant that lets a request fill the whole receive buffer and more
SizeSumExceeds_beyond_buffer(requestBytesSoFar, length) ==
  length < 0 \/ requestBytesSoFar + length > BufCap + 4

\* requestBytesSoFar + length > MAX_MSG_SIZE, with the int32_t length
\* converted to size_t: a negative sum wraps to a huge value
SizeSumExceeds(requestBytesSoFar, length) ==
  IF length > MAX_MSG_SIZE THEN TRUE
  ELSE IF requestBytesSoFar + length < 0 THEN TRUE
  ELSE requestBytesSoFar + length > MAX_MSG_SIZE

RECURSIVE ParseArgs(_, _, _, _, _, _)
\* the for loop over the nStr strings, from iteration i on, start = pos
ParseArgs(c, pos, i, nStr, requestBytesSoFar, command) ==
  IF i >= nStr THEN [kind |-> "complete", pos |-> pos, command |-> command]
  ELSE IF c.read_buffer_size - pos < 4
  THEN [kind |-> "more", pos |-> pos, command |-> command]
  ELSE LET length == Int32At(c, pos)
       IN IF SizeSumExceeds(requestBytesSoFar + 4, length)
          THEN [kind |-> "oversized", pos |-> pos + 4, command |-> command]
          ELSE IF c.read_buffer_size - (pos + 4) < length
          THEN [kind |-> "more", pos |-> pos + 4, command |-> command]
          ELSE IF length < 0
          \* std::string val(start, length) with a size of 2^64 + length
          \* throws std::length_error, which nothing catches
          THEN [kind |-> "length_error", pos |-> pos + 4, command |-> command]
          ELSE ParseArgs(c, pos + 4 + length, i + 1, nStr,
                         requestBytesSoFar + 4 + length,
                         Append(command, BytesAt(c, pos + 4, length)))

\* the result of one try_one_request call
Ret(rv, c, hmap, sent, command, wrote, terminated) ==
  [rv |-> rv, conn |-> c, hmap |-> hmap, sent |-> sent, command |-> command,
   wok |-> wrote, crashed |-> terminated]

\* a variant of the fatal branches that asks for more bytes instead
Fatal_returns_zero(c, msg, hmap, wo) == Ret(0, c, hmap, <<>>, <<>>, TRUE, FALSE)

\* the fatal branches: append the message frame, flush, return -1
Fatal(c, msg, hmap, wo) ==
  TheOne({ Ret(-1, f.conn, hmap, f.sent, <<>>, f.rv = 1, FALSE)
           : f \in {flush_write_buffer(AppendFrame(c, msg),
                                       WriteResults(wo, AppendFrame(c, msg)))} })

\* try_one_request(conn, conn->read_buffer + start) on the map hmap, the
\* socket answering a flush with wo
try_one_request(c, start, hmap, wo) ==
  IF c.read_buffer_size < 4 THEN Ret(0, c, hmap, <<>>, <<>>, TRUE, FALSE)
  ELSE
    LET nStr == Int32At(c, start)
        c0 == [c EXCEPT !.overread = @ \/ (start + 4 > c.read_buffer_size)]
    IN IF nStr < 2 \/ nStr > 3 THEN Fatal(c0, S_invalid_command, hmap, wo)
       ELSE
         TheOne({ IF a.kind = "more" THEN Ret(0, c0, hmap, <<>>, <<>>, TRUE, FALSE)
                  ELSE IF a.kind = "oversized"
                  THEN Fatal(c0, S_oversized_request, hmap, wo)
                  ELSE IF a.kind = "length_error"
                  THEN Ret(-1, c0, hmap, <<>>, <<>>, TRUE, TRUE)
                  ELSE TheOne({ Ret(a.pos - start, AppendFrame(c0, resp.response),
                                    resp.hmap, <<>>, a.command, TRUE, FALSE)
                                : resp \in {process_request(hmap, a.command)} })
                  : a \in {ParseArgs(c0, start + 4, 0, nStr, 4, <<>>)} })

-----------------------------------------------------------------------------
(* read_all *)

\* the bytes of seq from offset off on replaced by bytes (a store at buf + off)
StoreAt(buf, off, bytes) ==
  SubSeq(buf, 1, off) \o bytes \o SubSeq(buf, off + Len(bytes) + 1, Len(buf))

\* a variant that lowers read_buffer_size and moves no byte
Compact_no_memmove(c, used) == [c EXCEPT !.read_buffer_size = @ - used]

\* memmove(read_buffer, read_buffer + used, read_buffer_size - used);
\* read_buffer_size -= used
Compact(c, used) ==
  [c EXCEPT !.read_buffer =
              StoreAt(@, 0, SubSeq(@, used + 1, c.read_buffer_size)),
            !.read_buffer_size = @ - used]

\* the most try_one_request calls one filled buffer can take: a request is
\* at least 12 bytes long
MaxParse == (BufCap \div 12) + 1

\* one iteration of the inner while loop of read_all; s.st is "run" while
\* the loop goes on, "partial" after consumed == 0, "fatal" after
\* consumed < 0, "terminated" when the process has ended
ParseIter(s, wo) ==
  TheOne({ [conn |-> r.conn, hmap |-> r.hmap, rxq |-> s.rxq,
            start |-> IF r.rv > 0 THEN s.start + r.rv ELSE s.start,
            sent |-> s.sent \o r.sent,
            log |-> Append(s.log, [start |-> s.start, size |-> s.conn.read_buffer_size,
                                   nStr |-> Int32At(s.conn, s.start),
                                   rv |-> r.rv, command |-> r.command,
                                   same |-> r.hmap = s.hmap, wok |-> r.wok,
                                   sent_ok |-> /\ 0 <= r.conn.bytes_sent
                                               /\ r.conn.bytes_sent
                                                    <= r.conn.write_buffer_size,
                                   sent_part |-> r.conn.bytes_sent > 0]),
            wok |-> s.wok /\ r.wok,
            st |-> IF r.crashed THEN "terminated"
                   ELSE IF r.rv > 0 THEN "run"
                   ELSE IF r.rv = 0 THEN "partial" ELSE "fatal"]
           : r \in {try_one_request(s.conn, s.start, s.hmap, wo)} })

RECURSIVE ParseLoop(_, _, _)
\* at most n iterations of the inner while loop
ParseLoop(s, n, wo) ==
  IF n = 0 \/ s.st # "run" THEN s
  ELSE IF n = 1 THEN ParseIter(s, wo)
  ELSE ParseLoop(ParseLoop(s, n \div 2, wo), n - (n \div 2), wo)

\* a read() that stores all the bytes queued, whatever room it is given
Min_ignores_capacity(a, b) == b

Min(a, b) == IF a < b THEN a ELSE b

\* the result of read_all: the state it leaves, its return value, and
\* whether the process has ended
ReadAllDone(rv, t, live) ==
  [rv |-> rv, conn |-> t.conn, hmap |-> t.hmap, rxq |-> t.rxq,
   sent |-> t.sent, log |-> t.log, wok |-> t.wok, crashed |-> ~live]

\* read() stores the first n bytes of the receive queue behind the valid
\* bytes, and the inner while loop runs from start = read_buffer
ReadAndParse(s, n, wo) ==
  ParseLoop([conn |-> [s.conn EXCEPT
                         !.read_buffer = StoreAt(@, s.conn.read_buffer_size,
                                                 SubSeq(s.rxq, 1, n)),
                         !.read_buffer_size = @ + n],
             hmap |-> s.hmap, rxq |-> SubSeq(s.rxq, n + 1, Len(s.rxq)),
             start |-> 0, sent |-> s.sent, log |-> s.log,
             wok |-> s.wok, st |-> "run"], MaxParse, wo)

RECURSIVE read_all_from(_, _, _, _)
\* read_all from the top of its outer loop.  s = [conn, hmap, rxq, sent, log,
\* wok]; eof = the peer has closed; rerr = the read that finds the receive
\* queue empty fails with an error other than EINTR and EAGAIN.
\* Result: s with rv = the return value and crashed.
read_all_from(s, eof, rerr, wo) ==
  IF BufCap - s.conn.read_buffer_size = 0 THEN ReadAllDone(0, s, TRUE)
  ELSE IF s.rxq = <<>>
  THEN (IF eof THEN ReadAllDone(0, s, TRUE)
        ELSE IF rerr THEN ReadAllDone(-1, s, TRUE)
        ELSE ReadAllDone(1, s, TRUE))
  ELSE
    TheOne({ IF t.st = "terminated" THEN ReadAllDone(-1, t, FALSE)
             ELSE IF t.st = "fatal" THEN ReadAllDone(0, t, TRUE)
             ELSE read_all_from([t EXCEPT !.conn = Compact(t.conn, t.start)],
                                eof, rerr, wo)
             : t \in {ReadAndParse(s, Min(BufCap - s.conn.read_buffer_size, Len(s.rxq)), wo)} })

\* read_all(conn) with the receive queue q
read_all(c, hmap, q, eof, rerr, wo) ==
  read_all_from([conn |-> c, hmap |-> hmap, rxq |-> q, sent |-> <<>>,
                 log |-> <<>>, wok |-> TRUE], eof, rerr, wo)

-----------------------------------------------------------------------------
(* The map under a sequence of commands *)

\* sizes of the map at Init: the number of keys set before the modelled
\* commands start.  With load factor 8 and 128 moves per step a rehash
\* outlives the insert that triggers it from 256 keys on.
BallastSizes == {0, 31, 255, 511, 512}

BallastKey(i) == <<48 + (i \div 64), 48 + (i % 64)>>
BallastValue == <<48>>

RECURSIVE PopulateFrom(_, _, _)
\* hmap after set BallastKey(lo) 0, ..., set BallastKey(hi - 1) 0
PopulateFrom(hmap, lo, hi) ==
  IF lo >= hi \/ hmap.oob THEN hmap
  ELSE IF hi = lo + 1 THEN do_set(hmap, BallastKey(lo), BallastValue).hmap
  ELSE LET mid == (lo + hi) \div 2
       IN PopulateFrom(PopulateFrom(hmap, lo, mid), mid, hi)

\* the map after the first n ballast keys have been set
Populate(n) == PopulateFrom(EmptyHMap, 0, n)

Ka == <<97>>
Kb == <<98>>
\* a key with a zero byte: a, 0, b
Kz == <<97, 0, 98>>
PoolKeys == {Ka, Kz, BallastKey(30)}
PoolValues == {<<49>>, <<50, 0, 51>>}

BallastKeys == {BallastKey(i) : i \in 0..(ballast - 1)}

\* what the commands did to the keys they named
ShadowAfter(sh, command) ==
  IF Len(command) = 3 /\ command[1] = S_set
  THEN [k \in DOMAIN sh \cup {command[2]} |->
          IF k = command[2] THEN <<"set", command[3]>> ELSE sh[k]]
  ELSE IF Len(command) = 2 /\ command[1] = S_del
  THEN [k \in DOMAIN sh \cup {command[2]} |->
          IF k = command[2] THEN <<"del">> ELSE sh[k]]
  ELSE sh

\* the map the commands describe: whether key k is set, and its value
Described(k) ==
  IF k \in DOMAIN shadow THEN shadow[k]
  ELSE IF k \in BallastKeys THEN <<"set", BallastValue>>
  ELSE <<"del">>

\* the keys handed to hm_insert and not yet returned by hm_delete
LiveKeys == (BallastKeys \ deleted) \cup inserted

NoCmd == <<>>
\* no try_one_request call has been made in SpecCodec
NoCodec == [called |-> FALSE]
NoResp == [status |-> "NONE", response |-> <<>>]
\* no flush_write_buffer call has been made in SpecFlush
NoFlush == [called |-> FALSE]

\* the step just taken met neither an error event nor a failure of read_all
\* or flush_write_buffer
NoHandled == [kind |-> "none", fd |-> 0, rv |-> 1, wv |-> 0, mapkept |-> TRUE]

\* what the else branch of the for loop met on cfd: rv = the result of
\* read_all, wv = that of flush_write_buffer, mapkept = every
\* try_one_request call of that read_all (lg) which returned -1 has left
\* the map as it found it
Handled(cfd, rv, wv, lg) ==
  IF rv <= 0 \/ wv < 0
  THEN [kind |-> "io", fd |-> cfd, rv |-> rv, wv |-> wv,
        mapkept |-> \A i \in DOMAIN lg : lg[i].rv < 0 => lg[i].same]
  ELSE NoHandled

\* main has not started
IdleLoop ==
  /\ running = TRUE
  /\ pc = "idle"
  /\ events = <<>>
  /\ fd2Connection = <<>>
  /\ epoll = <<>>
  /\ socks = <<>>
  /\ backlog = <<>>
  /\ lerr = FALSE
  /\ werrno = 0
  /\ handled = NoHandled
  /\ budget = [connects |-> 0, sends |-> 0, faults |-> 0]

InitMap ==
  /\ \E n \in BallastSizes :
       /\ db = Populate(n)
       /\ ballast = n
  /\ shadow = <<>>
  /\ inserted = {}
  /\ deleted = {}
  /\ lastCmd = NoCmd
  /\ lastResp = NoResp
  /\ nops = 0
  /\ conn = NewConnection
  /\ wire = <<>>
  /\ rxq = <<>>
  /\ out = <<>>
  /\ peerClosed = FALSE
  /\ crashed = FALSE
  /\ stream = <<>>
  /\ log = <<>>
  /\ iook = TRUE
  /\ codec = NoCodec
  /\ flushed = NoFlush
  /\ IdleLoop

\* one call of process_request on the global map
Execute(command) ==
  /\ nops < MaxOps
  /\ \E r \in {process_request(db, command)} :
        /\ db' = r.hmap
        /\ lastResp' = [status |-> r.status, response |-> r.response]
        /\ inserted' = (inserted \ r.deleted) \cup r.inserted
        /\ deleted' = (deleted \ r.inserted) \cup r.deleted
  /\ lastCmd' = command
  /\ shadow' = ShadowAfter(shadow, command)
  /\ nops' = nops + 1
  /\ UNCHANGED <<ballast, connVars, codec, flushed, loopVars>>

CmdSet == \E k \in PoolKeys, v \in PoolValues : Execute(<<S_set, k, v>>)
CmdGet == \E k \in PoolKeys : Execute(<<S_get, k>>)
CmdDel == \E k \in PoolKeys : Execute(<<S_del, k>>)
CmdBad ==
  \E c \in {<<S_set, Ka>>, <<S_get, Ka, Kb>>, <<S_key_sp, Ka>>} :
    Execute(c)

NextMap == CmdSet \/ CmdGet \/ CmdDel \/ CmdBad

SpecMap == InitMap /\ [][NextMap]_vars

-----------------------------------------------------------------------------
(* Requests on the wire *)

RECURSIVE EncodeArgs(_)
\* (len(4) bytes)* : the strings as try_one_request's for loop reads them
EncodeArgs(args) ==
  IF args = <<>> THEN <<>>
  ELSE htonl(Len(Head(args))) \o Head(args) \o EncodeArgs(Tail(args))

\* a request as try_one_request reads it: nStr, then the strings
EncodeRequest(args) == htonl(Len(args)) \o EncodeArgs(args)

\* a request as the protocol description frames it: a frame length (not
\* counting itself) before n_args and the strings
EncodeFrame(args) == htonl(Len(EncodeRequest(args))) \o EncodeRequest(args)

RECURSIVE ArgBytes(_)
\* the sum over the strings of 4 + their length
ArgBytes(args) ==
  IF args = <<>> THEN 0 ELSE 4 + Len(Head(args)) + ArgBytes(Tail(args))

\* the bytes a request occupies: n_args and the length-prefixed strings
RequestSize(args) == 4 + ArgBytes(args)

\* a response frame on the wire
Frame(body) == htonl(Len(body)) \o body

\* messages a client sends: wf = a request in the format try_one_request reads
Req(args) == [wf |-> TRUE, args |-> args, bytes |-> EncodeRequest(args)]
Raw(bytes) == [wf |-> FALSE, args |-> <<>>, bytes |-> bytes]

WellFormed == {Req(<<S_set, Ka, <<49>>>>), Req(<<S_get, Ka>>), Req(<<S_del, Ka>>)}

Malformed ==
  { Raw(htonl(4)),                              \* n_args = 4
    Raw(<<255, 255, 255, 254>>),                \* n_args with the top bit set
    Raw(htonl(2) \o <<255, 255, 255, 255>>),    \* arg_len = 0xFFFFFFFF
    Raw(EncodeFrame(<<S_get, Ka>>)) }           \* a request with a frame length

Messages == WellFormed \cup Malformed

\* requests per stream in SpecConn
MaxReqs == 2

Streams == UNION {[1..n -> Messages] : n \in 1..MaxReqs}

RECURSIVE WireBytes(_)
WireBytes(msgs) ==
  IF msgs = <<>> THEN <<>> ELSE Head(msgs).bytes \o WireBytes(Tail(msgs))

-----------------------------------------------------------------------------
(* One client connection: the handlers of the event loop *)

\* the Connection accept() registers: conn->fd = cfd
Accepted == [NewConnection EXCEPT !.fd = 5, !.open = TRUE]

IdleMap ==
  /\ ballast = 0
  /\ shadow = <<>>
  /\ inserted = {}
  /\ deleted = {}
  /\ lastCmd = NoCmd
  /\ lastResp = NoResp
  /\ nops = 0

InitConn ==
  /\ \E st \in Streams :
       /\ stream = st
       /\ wire = WireBytes(st)
  /\ conn = Accepted
  /\ rxq = <<>>
  /\ out = <<>>
  /\ peerClosed = FALSE
  /\ crashed = FALSE
  /\ log = <<>>
  /\ iook = TRUE
  /\ db = EmptyHMap
  /\ IdleMap
  /\ codec = NoCodec
  /\ flushed = NoFlush
  /\ IdleLoop

\* the network hands the next n bytes in flight to the server's socket
Deliver ==
  /\ conn.open /\ ~crashed
  /\ \E n \in 1..Len(wire) :
       /\ rxq' = rxq \o SubSeq(wire, 1, n)
       /\ wire' = SubSeq(wire, n + 1, Len(wire))
  /\ UNCHANGED <<db, mapVars, conn, out, peerClosed, crashed, stream, log, iook, codec, flushed, loopVars>>

\* the client shuts the connection down after its last byte
ClientClose ==
  /\ conn.open /\ ~crashed
  /\ wire = <<>> /\ ~peerClosed
  /\ peerClosed' = TRUE
  /\ UNCHANGED <<db, mapVars, conn, wire, rxq, out, crashed, stream, log, iook, codec, flushed, loopVars>>

\* EPOLLIN on the client's fd: read_all, and on rv <= 0 the Connection is
\* closed and deleted (main, elserver.cpp:443-452)
ReadEvent ==
  /\ conn.open /\ ~crashed
  /\ rxq # <<>> \/ peerClosed
  /\ \E wo \in WriteOutcomes, rerr \in BOOLEAN :
       \E r \in {read_all(conn, db, rxq, peerClosed, rerr, wo)} :
         /\ conn' = [r.conn EXCEPT !.open = ~r.crashed /\ r.rv > 0]
         /\ db' = r.hmap
         /\ rxq' = r.rxq
         /\ out' = out \o r.sent
         /\ log' = r.log
         /\ iook' = (iook /\ r.wok /\ r.rv # -1)
         /\ crashed' = r.crashed
  /\ UNCHANGED <<mapVars, wire, peerClosed, stream, codec, flushed, loopVars>>

\* EPOLLOUT on the client's fd: flush_write_buffer, and on wv < 0 the
\* Connection is closed and deleted (main, elserver.cpp:462-475)
WriteEvent ==
  /\ conn.open /\ ~crashed
  /\ conn.write_buffer_size > 0
  /\ \E wo \in WriteOutcomes :
       \E f \in {flush_write_buffer(conn, WriteResults(wo, conn))} :
         /\ conn' = [f.conn EXCEPT !.open = f.rv >= 0]
         /\ out' = out \o f.sent
         /\ iook' = (iook /\ f.rv = 1)
  /\ UNCHANGED <<db, mapVars, wire, rxq, peerClosed, crashed, stream, log, codec, flushed, loopVars>>

NextConn == Deliver \/ ClientClose \/ ReadEvent \/ WriteEvent

SpecConn == InitConn /\ [][NextConn]_vars

-----------------------------------------------------------------------------
(* A client that pipelines many requests before it reads a response *)

\* requests per send in SpecPipeline, and sends per connection
BurstSizes == {1, 29, 58}
MaxSends == 2

\* k copies of bytes
Repeat(bytes, k) ==
  [i \in 1..(k * Len(bytes)) |-> bytes[((i - 1) % Len(bytes)) + 1]]

\* bytes of the first request of a send that the send before has held back
HeldBack(msgs) ==
  IF msgs = <<>> THEN <<>>
  ELSE LET last == msgs[Len(msgs)]
       IN SubSeq(EncodeRequest(last.args), last.cut + 1, RequestSize(last.args))

InitPipeline ==
  /\ stream = <<>>
  /\ wire = <<>>
  /\ conn = Accepted
  /\ rxq = <<>>
  /\ out = <<>>
  /\ peerClosed = FALSE
  /\ crashed = FALSE
  /\ log = <<>>
  /\ iook = TRUE
  /\ db = EmptyHMap
  /\ IdleMap
  /\ codec = NoCodec
  /\ flushed = NoFlush
  /\ IdleLoop

\* the client sends the rest of the request it has begun, then k copies of
\* one request and the first cut bytes of one more
SendPipelined ==
  /\ conn.open /\ ~crashed
  /\ Len(stream) < MaxSends
  /\ \E k \in BurstSizes, args \in {<<S_get, Ka>>, <<S_key_sp, Ka>>}, cut \in {0, 6} :
       LET bytes == HeldBack(stream) \o Repeat(EncodeRequest(args), k)
                      \o SubSeq(EncodeRequest(args), 1, cut)
       IN /\ stream' = Append(stream, [wf |-> TRUE, args |-> args, bytes |-> bytes,
                                       count |-> k, cut |-> cut])
          /\ wire' = wire \o bytes
  /\ UNCHANGED <<db, mapVars, conn, rxq, out, peerClosed, crashed, log, iook, codec, flushed, loopVars>>

\* the network hands all the bytes in flight to the server's socket
DeliverAll ==
  /\ conn.open /\ ~crashed
  /\ wire # <<>>
  /\ rxq' = rxq \o wire
  /\ wire' = <<>>
  /\ UNCHANGED <<db, mapVars, conn, out, peerClosed, crashed, stream, log, iook, codec, flushed, loopVars>>

NextPipeline == SendPipelined \/ DeliverAll \/ ReadEvent \/ WriteEvent

SpecPipeline == InitPipeline /\ [][NextPipeline]_vars

-----------------------------------------------------------------------------
(* A client that sends requests of half the size of the receive buffer *)

\* a get of a key of 497 bytes: a request of 512 bytes
BulkRequest == EncodeRequest(<<S_get, [i \in 1..497 |-> 120]>>)

\* a get of a key of 1009 bytes: a request of MAX_MSG_SIZE bytes, the
\* longest the parser accepts
LongestRequest == EncodeRequest(<<S_get, [i \in 1..(MAX_MSG_SIZE - 15) |-> 120]>>)

\* the first 4 + MAX_MSG_SIZE bytes of a get of a key of 1014 bytes, a
\* request of MAX_MSG_SIZE + 5 bytes
TooLongRequest ==
  SubSeq(EncodeRequest(<<S_get, [i \in 1..(MAX_MSG_SIZE - 10) |-> 120]>>), 1, BufCap)

\* what the client sends: three requests of 512 bytes; or a request of 16
\* bytes, two of 512 and the start of a request whose arg_len is
\* 0xFFFFFFF0; or the longest request and the n_args of a next one; or as
\* much of a request that is too long as the receive buffer holds
BulkWires ==
  {Repeat(BulkRequest, 3),
   EncodeRequest(<<S_get, Ka>>) \o Repeat(BulkRequest, 2)
     \o htonl(2) \o <<255, 255, 255, 240>>,
   LongestRequest \o htonl(2),
   TooLongRequest}

\* sizes of the parts in which the network hands the bytes over
DeliverSizes == {516, BufCap}

InitBulk ==
  /\ wire \in BulkWires
  /\ stream = <<>>
  /\ conn = Accepted
  /\ rxq = <<>>
  /\ out = <<>>
  /\ peerClosed = FALSE
  /\ crashed = FALSE
  /\ log = <<>>
  /\ iook = TRUE
  /\ db = EmptyHMap
  /\ IdleMap
  /\ codec = NoCodec
  /\ flushed = NoFlush
  /\ IdleLoop

\* the network hands the next n bytes in flight, or all of them, to the
\* server's socket
DeliverSome ==
  /\ conn.open /\ ~crashed
  /\ wire # <<>>
  /\ \E n \in DeliverSizes \cup {Len(wire)} :
       /\ n <= Len(wire)
       /\ rxq' = rxq \o SubSeq(wire, 1, n)
       /\ wire' = SubSeq(wire, n + 1, Len(wire))
  /\ UNCHANGED <<db, mapVars, conn, out, peerClosed, crashed, stream, log, iook, codec, flushed, loopVars>>

NextBulk == DeliverSome \/ ClientClose \/ ReadEvent \/ WriteEvent

SpecBulk == InitBulk /\ [][NextBulk]_vars

-----------------------------------------------------------------------------
(* try_one_request as a function of the receive buffer *)

\* an argument of n bytes
LongArg(n) == [i \in 1..n |-> 120]

CodecVerbs == {S_get, S_del, S_set, <<>>, <<0, 255>>}
CodecKeys == {<<>>, Ka, Kz, <<255>>}
CodecValues == {<<>>, <<49>>}

\* the argument vectors encoded; the last four are requests of
\* MAX_MSG_SIZE and of MAX_MSG_SIZE + 1 bytes
CodecArgs ==
  {<<v, k>> : v \in CodecVerbs, k \in CodecKeys}
    \cup {<<v, k, w>> : v \in CodecVerbs, k \in CodecKeys, w \in CodecValues}
    \cup {<<S_get, LongArg(MAX_MSG_SIZE - 15)>>, <<S_get, LongArg(MAX_MSG_SIZE - 14)>>,
          <<S_set, LongArg(MAX_MSG_SIZE - 20), <<49>>>>,
          <<S_set, LongArg(MAX_MSG_SIZE - 19), <<49>>>>}

\* arg_len fields of more than MAX_MSG_SIZE: 2^32 - 1, 2^32 - 8, 2^32 - 9,
\* 2^32 - 15, 2^32 - 16, 2^31, 2^31 - 1, and MAX_MSG_SIZE itself
BigLens ==
  {<<255, 255, 255, 255>>, <<255, 255, 255, 248>>, <<255, 255, 255, 247>>,
   <<255, 255, 255, 241>>, <<255, 255, 255, 240>>,
   <<128, 0, 0, 0>>, <<127, 255, 255, 255>>, htonl(MAX_MSG_SIZE)}

\* the inputs of a call: a request of CodecArgs, alone or behind a frame
\* length, or (raw) the start of a two-argument request whose last arg_len
\* field is one of BigLens, with two bytes of that argument behind it
CodecInputs ==
  {[args |-> a, framed |-> f, raw |-> FALSE, biglen |-> <<>>,
    enc |-> IF f THEN EncodeFrame(a) ELSE EncodeRequest(a)]
     : a \in CodecArgs, f \in BOOLEAN}
    \cup {[args |-> a, framed |-> FALSE, raw |-> TRUE, biglen |-> b,
           enc |-> htonl(2) \o EncodeArgs(a) \o b \o <<120, 120>>]
            : a \in {<<>>, <<S_get>>}, b \in BigLens}

\* how many bytes of an encoding have arrived: every prefix of a short one
Cuts(enc) ==
  IF Len(enc) > 64 THEN {4, 8, 12, 15, 16, Len(enc) - 1, Len(enc)} ELSE 0..Len(enc)

\* the receive buffer after read_all has stored lead \o bytes at its start
\* and try_one_request has consumed lead
Received(lead, bytes) ==
  [Accepted EXCEPT !.read_buffer = lead \o bytes,
                   !.read_buffer_size = Len(lead) + Len(bytes)]

\* an earlier request of the same read, consumed before the call
Leads == {<<>>, EncodeRequest(<<S_get, Kb>>)}

\* the maps a call finds: the empty one, and one that holds Ka
CodecMaps ==
  {EmptyHMap,
   hm_insert(EmptyHMap, [key |-> Ka, value |-> <<49>>, hashcode |-> str_hash(Ka)])}

InitCodec ==
  /\ \E in \in CodecInputs, lead \in Leads, m \in CodecMaps :
       \E cut \in Cuts(in.enc) :
         /\ Len(lead) + cut <= BufCap
         /\ conn = Received(lead, SubSeq(in.enc, 1, cut))
         /\ db = m
         /\ codec = [called |-> FALSE, args |-> in.args, framed |-> in.framed,
                     raw |-> in.raw, biglen |-> in.biglen,
                     start |-> Len(lead), cut |-> cut,
                     complete |-> ~in.raw /\ cut = Len(in.enc)]
  /\ wire = <<>>
  /\ rxq = <<>>
  /\ out = <<>>
  /\ peerClosed = FALSE
  /\ crashed = FALSE
  /\ stream = <<>>
  /\ log = <<>>
  /\ iook = TRUE
  /\ IdleMap
  /\ flushed = NoFlush
  /\ IdleLoop

\* the call try_one_request(conn, conn->read_buffer + start)
Decode ==
  /\ ~codec.called
  /\ \E wo \in WriteOutcomes :
       \E r \in {try_one_request(conn, codec.start, db, wo)} :
         /\ conn' = r.conn
         /\ db' = r.hmap
         /\ out' = out \o r.sent
         /\ crashed' = r.crashed
         /\ codec' = [codec EXCEPT !.called = TRUE] @@
                       [rv |-> r.rv, command |-> r.command,
                        before |-> conn, hmap |-> db]
  /\ UNCHANGED <<mapVars, wire, rxq, peerClosed, stream, log, iook, flushed, loopVars>>

NextCodec == Decode

SpecCodec == InitCodec /\ [][NextCodec]_vars

-----------------------------------------------------------------------------
(* flush_write_buffer as a function of the send buffer and the socket *)

\* what a send buffer holds when a flush begins: response frames
FlushBuffers ==
  {Frame(S_key_not_found),
   Frame(S_key_sp \o Ka \o S_deleted) \o Frame(S_unknown_command)}

\* the results a write() call can have: -1 with an errno, or a byte count
WriteResultValues == {-EINTR, -EAGAIN, -ECONNRESET, 0, 1, 5, BufCap}

RECURSIVE SeqsUpTo(_, _)
\* the sequences of at most n elements of S
SeqsUpTo(S, n) ==
  IF n = 0 THEN {<<>>}
  ELSE {<<>>} \cup {<<x>> \o t : x \in S, t \in SeqsUpTo(S, n - 1)}

InitFlush ==
  /\ \E buf \in FlushBuffers, sent \in {0, 1, 17} :
       conn = [Accepted EXCEPT !.write_buffer = buf,
                               !.write_buffer_size = Len(buf),
                               !.bytes_sent = sent]
  /\ \E results \in SeqsUpTo(WriteResultValues, MaxWrites) :
       flushed = [called |-> FALSE, results |-> results]
  /\ wire = <<>>
  /\ rxq = <<>>
  /\ out = <<>>
  /\ peerClosed = FALSE
  /\ crashed = FALSE
  /\ stream = <<>>
  /\ log = <<>>
  /\ iook = TRUE
  /\ db = EmptyHMap
  /\ IdleMap
  /\ codec = NoCodec
  /\ IdleLoop

\* the call flush_write_buffer(conn)
Flush ==
  /\ ~flushed.called
  /\ \E f \in {flush_write_buffer(conn, flushed.results)} :
       /\ conn' = f.conn
       /\ out' = out \o f.sent
       /\ flushed' = [called |-> TRUE, results |-> flushed.results,
                      rv |-> f.rv, before |-> conn]
  /\ UNCHANGED <<db, mapVars, wire, rxq, peerClosed, crashed, stream, log, iook,
                 codec, loopVars>>

NextFlush == Flush

SpecFlush == InitFlush /\ [][NextFlush]_vars

-----------------------------------------------------------------------------
(* main: the event loop over epoll_wait, with several clients *)

\* the listening socket of main; epoll_fd is the next descriptor
ListenFd == 3

\* the descriptors accept() hands out: the lowest one that is free
ClientFds == {5, 6}

\* ev.events of a client fd: as accept registers it, and with EPOLLOUT
EPOLL_R == {"EPOLLIN", "EPOLLET"}
EPOLL_RW == {"EPOLLIN", "EPOLLOUT", "EPOLLET"}

\* EPOLLERR | EPOLLHUP | EPOLLRDHUP
ErrorFlags == {"EPOLLERR", "EPOLLHUP", "EPOLLRDHUP"}

\* what reaches a receive queue at a time, of the requests a client sends
\* back to back: a set and the first four bytes of a get; the rest of that
\* get and the first four bytes of another; a get alone; an n_args of 4;
\* an n_args of 2 and an arg_len of 0xFFFFFFFF
LoopMessages ==
  LET get_a == EncodeRequest(<<S_get, Ka>>)
  IN {EncodeRequest(<<S_set, Ka, <<49>>>>) \o SubSeq(get_a, 1, 4),
      SubSeq(get_a, 5, Len(get_a)) \o SubSeq(get_a, 1, 4),
      get_a,
      <<0, 0, 0, 4>>,
      htonl(2) \o <<255, 255, 255, 255>>}

\* a variant of erase that empties the map
Drop_all(f, k) == [x \in {} |-> f[k]]

\* f without the key k, and f with k mapped to v
Drop(f, k) == [x \in DOMAIN f \ {k} |-> f[x]]
Put(f, k, v) == [x \in DOMAIN f \cup {k} |-> IF x = k THEN v ELSE f[x]]

\* a connection in the listen queue
QueuedSock ==
  [state |-> "queued", fd |-> 0, rxq |-> <<>>, out |-> <<>>,
   peerClosed |-> FALSE, hup |-> FALSE]

\* the connections the server holds a descriptor of
OpenSocks(sk) == {i \in DOMAIN sk : sk[i].state = "open"}

\* the connection behind the descriptor cfd
SockOf(sk, cfd) == CHOOSE i \in OpenSocks(sk) : sk[i].fd = cfd

\* the descriptors in use
UsedFds(sk) == {sk[i].fd : i \in OpenSocks(sk)}

\* close(cfd): the kernel also drops cfd from the interest list
CloseSock(sk, cfd) ==
  [sk EXCEPT ![SockOf(sk, cfd)] = [@ EXCEPT !.state = "closed", !.fd = 0]]

InitLoop ==
  /\ running = TRUE
  /\ pc = "wait"
  /\ events = <<>>
  /\ fd2Connection = [x \in {} |-> NewConnection]
  /\ epoll = [x \in {ListenFd} |-> {"EPOLLIN"}]
  /\ socks = <<>>
  /\ backlog = <<>>
  /\ lerr = FALSE
  /\ werrno = 0
  /\ handled = NoHandled
  /\ budget = [connects |-> MaxConnects, sends |-> MaxLoopSends, faults |-> MaxFaults]
  /\ db = EmptyHMap
  /\ conn = NewConnection
  /\ wire = <<>>
  /\ rxq = <<>>
  /\ out = <<>>
  /\ peerClosed = FALSE
  /\ crashed = FALSE
  /\ stream = <<>>
  /\ log = <<>>
  /\ iook = TRUE
  /\ IdleMap
  /\ codec = NoCodec
  /\ flushed = NoFlush

\* what SpecLoop leaves alone
loopFrame == <<mapVars, conn, wire, rxq, out, peerClosed, stream, log, iook, codec, flushed>>

\* the process runs
Alive == pc # "exited" /\ ~crashed

(* The clients and the network *)

\* a client connects: the connection waits in the listen queue
Connect ==
  /\ Alive
  /\ budget.connects > 0
  /\ socks' = Append(socks, QueuedSock)
  /\ backlog' = Append(backlog, Len(socks) + 1)
  /\ budget' = [budget EXCEPT !.connects = @ - 1]
  /\ handled' = NoHandled
  /\ UNCHANGED <<db, crashed, running, pc, events, fd2Connection, epoll, lerr, werrno, loopFrame>>

\* a message of a client reaches the receive queue of its connection
ClientSend ==
  /\ Alive
  /\ budget.sends > 0
  /\ \E i \in DOMAIN socks, m \in LoopMessages :
       /\ socks[i].state # "closed" /\ ~socks[i].peerClosed /\ ~socks[i].hup
       /\ socks' = [socks EXCEPT ![i].rxq = @ \o m]
  /\ budget' = [budget EXCEPT !.sends = @ - 1]
  /\ handled' = NoHandled
  /\ UNCHANGED <<db, crashed, running, pc, events, fd2Connection, epoll, backlog, lerr, werrno, loopFrame>>

\* a client shuts its side of an accepted connection down
ClientShutdown ==
  /\ Alive
  /\ \E i \in OpenSocks(socks) :
       /\ ~socks[i].peerClosed /\ ~socks[i].hup
       /\ socks' = [socks EXCEPT ![i].peerClosed = TRUE]
  /\ handled' = NoHandled
  /\ UNCHANGED <<db, crashed, running, pc, events, fd2Connection, epoll, backlog, lerr, werrno, budget, loopFrame>>

\* an accepted connection is reset
ClientReset ==
  /\ Alive
  /\ budget.faults > 0
  /\ \E i \in OpenSocks(socks) :
       /\ ~socks[i].hup
       /\ socks' = [socks EXCEPT ![i].hup = TRUE]
  /\ budget' = [budget EXCEPT !.faults = @ - 1]
  /\ handled' = NoHandled
  /\ UNCHANGED <<db, crashed, running, pc, events, fd2Connection, epoll, backlog, lerr, werrno, loopFrame>>

\* an error condition arises on the listening socket
ListenerError ==
  /\ Alive
  /\ budget.faults > 0
  /\ ~lerr
  /\ lerr' = TRUE
  /\ budget' = [budget EXCEPT !.faults = @ - 1]
  /\ handled' = NoHandled
  /\ UNCHANGED <<db, crashed, running, pc, events, fd2Connection, epoll, socks, backlog, werrno, loopFrame>>

(* epoll_wait *)

\* the events epoll reports for fd: the listening socket is registered
\* level-triggered for EPOLLIN; EPOLLERR and EPOLLHUP are reported for
\* every registered fd.  For a client fd the readiness is reported whenever
\* it holds, which includes every report of the edge-triggered registration.
ReadyFlags(fd) ==
  IF fd = ListenFd
  THEN (IF backlog # <<>> THEN {"EPOLLIN"} ELSE {})
         \cup (IF lerr THEN {"EPOLLERR"} ELSE {})
  ELSE LET s == socks[SockOf(socks, fd)]
       IN (IF "EPOLLIN" \in epoll[fd] /\ (s.rxq # <<>> \/ s.peerClosed \/ s.hup)
           THEN {"EPOLLIN"} ELSE {})
            \cup (IF "EPOLLOUT" \in epoll[fd] THEN {"EPOLLOUT"} ELSE {})
            \cup (IF s.hup THEN {"EPOLLERR", "EPOLLHUP"} ELSE {})

RECURSIVE Orders(_)
\* the sequences that list each element of S once
Orders(S) ==
  IF S = {} THEN {<<>>}
  ELSE UNION {{<<x>> \o t : t \in Orders(S \ {x})} : x \in S}

\* epoll_wait returns n > 0 and fills events[0..n), one entry for each
\* ready descriptor of the interest list: main enters the for loop.
\* sock (ghost) is the connection the descriptor stands for at this moment.
EpollWait ==
  /\ pc = "wait" /\ ~crashed
  /\ \E F \in SUBSET {fd \in DOMAIN epoll : ReadyFlags(fd) # {}} :
       /\ F # {}
       /\ \E o \in Orders(F) :
            events' = [i \in DOMAIN o |->
                         [fd |-> o[i], events |-> ReadyFlags(o[i]),
                          sock |-> IF o[i] = ListenFd THEN 0 ELSE SockOf(socks, o[i])]]
  /\ pc' = "batch"
  /\ werrno' = 0
  /\ handled' = NoHandled
  /\ UNCHANGED <<db, crashed, running, fd2Connection, epoll, socks, backlog, lerr, budget, loopFrame>>

\* epoll_wait returns -1 because a signal has interrupted it: n < 0 leaves
\* the while loop (elserver.cpp:381-384)
EpollWaitInterrupted ==
  /\ pc = "wait" /\ ~crashed
  /\ budget.faults > 0
  /\ budget' = [budget EXCEPT !.faults = @ - 1]
  /\ werrno' = EINTR
  /\ pc' = "cleanup"
  /\ handled' = NoHandled
  /\ UNCHANGED <<db, crashed, running, events, fd2Connection, epoll, socks, backlog, lerr, loopFrame>>

(* The for loop over events[] *)

\* the position of main behind the handling of events[i]: the next event,
\* or the test of the while loop
NextPc(run) ==
  IF Tail(events) # <<>> THEN "batch"
  ELSE IF run THEN "wait" ELSE "cleanup"

\* the lowest descriptor that is free: what accept() returns
LowestFree(sk) ==
  CHOOSE fd \in ClientFds \ UsedFds(sk) : \A g \in ClientFds \ UsedFds(sk) : fd <= g

RECURSIVE accept_loop_unchecked(_)
\* a variant that does not look at the result of epoll_ctl(ADD): the
\* Connection is created also when the registration has failed
accept_loop_unchecked(s) ==
  IF s.backlog = <<>> \/ ClientFds \ UsedFds(s.socks) = {} THEN s
  ELSE LET connfd == LowestFree(s.socks)
       IN accept_loop_unchecked(
            [fd2Connection |->
               Put(s.fd2Connection, connfd,
                   [NewConnection EXCEPT !.fd = connfd, !.open = TRUE]),
             epoll |-> IF s.addfails > 0 THEN s.epoll ELSE Put(s.epoll, connfd, EPOLL_R),
             socks |-> [s.socks EXCEPT ![Head(s.backlog)] =
                          [@ EXCEPT !.state = "open", !.fd = connfd]],
             backlog |-> Tail(s.backlog),
             addfails |-> IF s.addfails > 0 THEN s.addfails - 1 ELSE 0])

RECURSIVE accept_loop(_)
\* the while (true) loop around accept(): s = [fd2Connection, epoll, socks,
\* backlog, addfails]; it ends when the listen queue is empty (EAGAIN) or
\* accept() fails for want of a free descriptor.  For the first addfails
\* connections set_fd_nb or epoll_ctl(ADD) fails: close(connfd); continue.
accept_loop(s) ==
  IF s.backlog = <<>> \/ ClientFds \ UsedFds(s.socks) = {} THEN s
  ELSE IF s.addfails > 0
  THEN accept_loop(
         [s EXCEPT !.socks[Head(s.backlog)] = [@ EXCEPT !.state = "closed", !.fd = 0],
                   !.backlog = Tail(@),
                   !.addfails = @ - 1])
  ELSE LET connfd == LowestFree(s.socks)
       IN accept_loop(
            [fd2Connection |->
               Put(s.fd2Connection, connfd,
                   [NewConnection EXCEPT !.fd = connfd, !.open = TRUE]),
             epoll |-> Put(s.epoll, connfd, EPOLL_R),
             socks |-> [s.socks EXCEPT ![Head(s.backlog)] =
                          [@ EXCEPT !.state = "open", !.fd = connfd]],
             backlog |-> Tail(s.backlog),
             addfails |-> 0])

\* events[i].data.fd == fd: the accept loop, whatever events[i].events holds
\* (elserver.cpp:386-416); with an error pending on the listening socket the
\* first accept() either fails or goes on as usual, and the registration of
\* the first connection accepted may fail
HandleListener ==
  /\ pc = "batch" /\ ~crashed
  /\ Head(events).fd = ListenFd
  /\ \E fails \in {FALSE, lerr}, addfails \in 0..Min(1, budget.faults) :
       \E s \in {IF fails
                 THEN [fd2Connection |-> fd2Connection, epoll |-> epoll,
                       socks |-> socks, backlog |-> backlog, addfails |-> addfails]
                 ELSE accept_loop([fd2Connection |-> fd2Connection, epoll |-> epoll,
                                   socks |-> socks, backlog |-> backlog,
                                   addfails |-> addfails])} :
         /\ s.addfails = 0
         /\ fd2Connection' = s.fd2Connection
         /\ epoll' = s.epoll
         /\ socks' = s.socks
         /\ backlog' = s.backlog
         /\ budget' = [budget EXCEPT !.faults = @ - addfails]
  /\ handled' = NoHandled
  /\ events' = Tail(events)
  /\ pc' = NextPc(running)
  /\ UNCHANGED <<db, crashed, running, lerr, werrno, loopFrame>>

\* events[i].events & (EPOLLERR | EPOLLHUP | EPOLLRDHUP) on a descriptor
\* other than fd (elserver.cpp:417-432)
HandleClientError ==
  /\ pc = "batch" /\ ~crashed
  /\ Head(events).fd # ListenFd
  /\ Head(events).events \cap ErrorFlags # {}
  /\ LET cfd == Head(events).fd
     IN IF cfd = ListenFd
        THEN /\ running' = FALSE
             /\ UNCHANGED <<epoll, socks, fd2Connection>>
        ELSE /\ running' = running
             /\ epoll' = Drop(epoll, cfd)
             /\ socks' = CloseSock(socks, cfd)
             /\ fd2Connection' = Drop(fd2Connection, cfd)
  /\ handled' = [NoHandled EXCEPT !.kind = "error", !.fd = Head(events).fd]
  /\ events' = Tail(events)
  /\ pc' = NextPc(running')
  /\ UNCHANGED <<db, crashed, backlog, lerr, werrno, budget, loopFrame>>

\* a variant that never adds EPOLLOUT
ArmWrite_never(reg, c) == reg

\* if (conn->write_buffer_size > 0) epoll_ctl(MOD, EPOLLIN | EPOLLOUT | EPOLLET)
ArmWrite(reg, c) == IF c.write_buffer_size > 0 THEN EPOLL_RW ELSE reg

\* a variant that turns EPOLLOUT off behind every flush
DisarmWrite_always(reg, c) == EPOLL_R

\* else if (conn->write_buffer_size == 0) epoll_ctl(MOD, EPOLLIN | EPOLLET)
DisarmWrite(reg, c) == IF c.write_buffer_size = 0 THEN EPOLL_R ELSE reg

\* if (events[i].events & EPOLLIN) rv = read_all(conn)
ReadIfReadable(ev, c, hmap, q, eof, rerr, wo) ==
  IF "EPOLLIN" \in ev THEN read_all(c, hmap, q, eof, rerr, wo)
  ELSE [rv |-> 1, conn |-> c, hmap |-> hmap, rxq |-> q, sent |-> <<>>,
        log |-> <<>>, wok |-> TRUE, crashed |-> FALSE]

\* if (events[i].events & EPOLLOUT) wv = flush_write_buffer(conn), followed
\* by the change of the registration; reg = FALSE when the Connection has
\* been destroyed
WriteIfWritable(ev, c, reg, wo) ==
  IF "EPOLLOUT" \in ev
  THEN TheOne({ [alive |-> f.rv >= 0, conn |-> f.conn, sent |-> f.sent,
                 reg |-> DisarmWrite(reg, f.conn), wv |-> f.rv]
                : f \in {flush_write_buffer(c, WriteResults(wo, c))} })
  ELSE [alive |-> TRUE, conn |-> c, sent |-> <<>>, reg |-> reg, wv |-> 0]

\* the else branch: read and write on a client (elserver.cpp:433-476)
HandleClientIO ==
  /\ pc = "batch" /\ ~crashed
  /\ Head(events).fd # ListenFd
  /\ Head(events).events \cap ErrorFlags = {}
  /\ LET cfd == Head(events).fd
         ev == Head(events).events
     IN IF cfd \notin DOMAIN fd2Connection
        THEN /\ handled' = NoHandled
             /\ UNCHANGED <<db, crashed, fd2Connection, epoll, socks>>
        ELSE
          \E wo \in WriteOutcomes, rerr \in BOOLEAN, i \in {SockOf(socks, cfd)} :
            \E r \in {ReadIfReadable(ev, fd2Connection[cfd], db, socks[i].rxq,
                                     socks[i].peerClosed, rerr, wo)} :
              /\ db' = r.hmap
              /\ crashed' = r.crashed
              /\ IF r.crashed \/ r.rv <= 0
                 THEN /\ handled' = Handled(cfd, r.rv, 0, r.log)
                      /\ fd2Connection' = Drop(fd2Connection, cfd)
                      /\ epoll' = Drop(epoll, cfd)
                      /\ socks' = CloseSock([socks EXCEPT ![i].rxq = r.rxq,
                                                          ![i].out = @ \o r.sent], cfd)
                 ELSE \E w \in {WriteIfWritable(ev, r.conn,
                                                ArmWrite(epoll[cfd], r.conn), wo)} :
                        /\ handled' = Handled(cfd, r.rv, w.wv, r.log)
                        /\ IF w.alive
                           THEN /\ fd2Connection' = [fd2Connection EXCEPT ![cfd] = w.conn]
                                /\ epoll' = [epoll EXCEPT ![cfd] = w.reg]
                                /\ socks' = [socks EXCEPT ![i].rxq = r.rxq,
                                                          ![i].out = @ \o r.sent \o w.sent]
                           ELSE /\ fd2Connection' = Drop(fd2Connection, cfd)
                                /\ epoll' = Drop(epoll, cfd)
                                /\ socks' = CloseSock([socks EXCEPT ![i].rxq = r.rxq,
                                                                    ![i].out = @ \o r.sent \o w.sent],
                                                      cfd)
  /\ events' = Tail(events)
  /\ pc' = NextPc(running)
  /\ UNCHANGED <<running, backlog, lerr, werrno, budget, loopFrame>>

RECURSIVE CloseAll(_, _)
\* close() of every descriptor of fds
CloseAll(sk, fds) ==
  IF fds = {} THEN sk
  ELSE LET cfd == CHOOSE x \in fds : TRUE
       IN CloseAll(CloseSock(sk, cfd), fds \ {cfd})

\* behind the while loop: every Connection is deregistered, closed and
\* deleted, epoll_fd is closed, main returns (elserver.cpp:480-488)
Cleanup ==
  /\ pc = "cleanup" /\ ~crashed
  /\ socks' = CloseAll(socks, DOMAIN fd2Connection)
  /\ fd2Connection' = [x \in {} |-> NewConnection]
  /\ epoll' = [x \in {} |-> {}]
  /\ events' = <<>>
  /\ pc' = "exited"
  /\ handled' = NoHandled
  /\ UNCHANGED <<db, crashed, running, backlog, lerr, werrno, budget, loopFrame>>

NextLoop ==
  \/ Connect \/ ClientSend \/ ClientShutdown \/ ClientReset \/ ListenerError
  \/ EpollWait \/ EpollWaitInterrupted
  \/ HandleListener \/ HandleClientError \/ HandleClientIO
  \/ Cleanup

SpecLoop == InitLoop /\ [][NextLoop]_vars

-----------------------------------------------------------------------------
(* What is stored in the map *)

\* the places <<bucket, index>> of the nodes linked into a table
Places(hashtable) ==
  UNION {{<<b - 1, i>> : i \in 1..Len(hashtable.tab[b])} : b \in DOMAIN hashtable.tab}

\* the keys of the nodes linked into a table
KeysIn(hashtable) == {NodeAt(hashtable, p).key : p \in Places(hashtable)}

\* a rehash is in progress and both tables hold entries
RehashInProgress == db.h2.alloc /\ db.h2.size > 0 /\ db.h1.size > 0

\* the node a caller builds to look key k up
Probe(k) == [key |-> k, value |-> <<>>, hashcode |-> str_hash(k)]
-----------------------------------------------------------------------------
(* Claims about the map and the dispatcher, checked under SpecMap *)

IsGet(command) == Len(command) = 2 /\ command[1] = S_get

\* C1: a get k that follows a set k v with no del k in between is answered
\* with the body "get k = v\n", v the value of the most recent set k, for
\* any keys and values (byte strings) and any rehash state.
GetReturnsLastSet ==
  (IsGet(lastCmd) /\ Described(lastCmd[2])[1] = "set")
    => lastResp.response =
         S_get_sp \o lastCmd[2] \o S_eq \o Described(lastCmd[2])[2] \o S_nl

HasZero(s) == \E i \in DOMAIN s : s[i] = 0

\* no command since Init named a key or a value with a zero byte
ZeroFreeHistory ==
  \A k \in DOMAIN shadow :
    ~HasZero(k) /\ (shadow[k][1] = "set" => ~HasZero(shadow[k][2]))

\* the statement of C1 for keys and values without zero bytes
GetReturnsLastSetZeroFree == ZeroFreeHistory => GetReturnsLastSet

\* C6: h1.size + h2.size is the number of distinct live keys, and no key
\* is stored twice, neither in one table nor once in each.
SizeIsLiveKeysNoDuplicates ==
  /\ db.h1.size + db.h2.size = Cardinality(LiveKeys)
  /\ Cardinality(Places(db.h1)) + Cardinality(Places(db.h2))
       = Cardinality(KeysIn(db.h1) \cup KeysIn(db.h2))

\* keys have been inserted and deleted since Init, and a rehash is in
\* progress with entries in both tables
InsertedDeletedDuringRehash ==
  /\ RehashInProgress
  /\ inserted # {}
  /\ deleted # {}

\* keys to look up: keys of the commands, ballast keys of every part of
\* the key range, and keys that are never set
ProbeKeys ==
  {Ka, Kb} \cup {BallastKey(i) : i \in {0, 30, 31, 100, 200, 254, 255, 256, 400, 510, 511, 600}}

\* C7: in every reachable state, also during a rehash, hm_lookup finds
\* every live key and returns absent for every key that is not live.  Every
\* live key is stored, in the bucket where the lookup searches for it.
LookupFindsExactlyLiveKeys ==
  /\ \A k \in ProbeKeys :
       \E r \in {hm_lookup(db, Probe(k))} :
         IF k \in LiveKeys
         THEN /\ r.tbl # 0
              /\ NodeAt(IF r.tbl = 1 THEN r.hmap.h1 ELSE r.hmap.h2, r.from).key = k
         ELSE r.tbl = 0
  /\ KeysIn(db.h1) \cup KeysIn(db.h2) = LiveKeys
  /\ \A t \in {db.h1, db.h2} : \A p \in Places(t) :
       BucketOf(NodeAt(t, p).hashcode, t.mask) = p[1]

\* a rehash is in progress and a probed key is stored in each table
ProbedKeysInBothTables ==
  /\ RehashInProgress
  /\ \E k \in ProbeKeys : k \in KeysIn(db.h1)
  /\ \E k \in ProbeKeys : k \in KeysIn(db.h2)
  /\ \E k \in ProbeKeys : k \notin LiveKeys /\ nops > 0

-----------------------------------------------------------------------------
(* Claims about one connection, checked under SpecConn *)

IsPrefix(p, s) == Len(p) <= Len(s) /\ SubSeq(s, 1, Len(p)) = p

\* every message of the stream is a request in the format the parser reads
ValidStream == \A i \in DOMAIN stream : stream[i].wf

\* the bytes of write_buffer not yet handed to the socket
Pending(c) == SubSeq(c.write_buffer, c.bytes_sent + 1, c.write_buffer_size)

\* the response bytes the server has written and, while the Connection
\* lives, has staged for writing
OutStream == out \o (IF conn.open THEN Pending(conn) ELSE <<>>)

\* nothing is left for the server to read, or it reads no more
Quiescent == ~conn.open \/ crashed \/ (wire = <<>> /\ rxq = <<>>)

RECURSIVE ExpectedResponses(_, _)
\* the response frames of the requests msgs, executed in order on hmap
ExpectedResponses(msgs, hmap) ==
  IF msgs = <<>> THEN <<>>
  ELSE LET r == process_request(hmap, Head(msgs).args)
       IN Frame(r.response) \o ExpectedResponses(Tail(msgs), r.hmap)

\* C2: when a client has sent two well-formed requests back to back and the
\* server has read all it is going to read (no write refused, no read
\* failed, the client still connected), the response stream starts with one
\* frame for the first request followed by one frame for the second.
PipelinedResponsesInOrder ==
  (Len(stream) = 2 /\ ValidStream /\ iook /\ ~peerClosed /\ Quiescent)
    => IsPrefix(ExpectedResponses(stream, EmptyHMap), OutStream)

\* C3: while the client sends only well-formed requests and stays connected,
\* and no read or write fails, the Connection is not destroyed.
ConnectionStaysOpen ==
  (ValidStream /\ iook /\ ~peerClosed /\ ~crashed) => conn.open

\* C5: no byte sequence a client sends terminates the server process.
NoInputTerminatesProcess == ~crashed

\* the key/value pairs stored in a map
Contents(hmap) ==
  {<<NodeAt(hmap.h1, p).key, NodeAt(hmap.h1, p).value>> : p \in Places(hmap.h1)}
    \cup {<<NodeAt(hmap.h2, p).key, NodeAt(hmap.h2, p).value>> : p \in Places(hmap.h2)}

\* what a client and the map see of a run
Outcome == [responses |-> OutStream, map |-> Contents(db), open |-> conn.open]

\* the outcome when the whole stream is delivered to one read of a fresh
\* Connection
SingleDelivery(msgs) ==
  LET r == read_all(Accepted, EmptyHMap, WireBytes(msgs), FALSE, FALSE, "all")
  IN [responses |-> r.sent \o (IF r.rv > 0 THEN Pending(r.conn) ELSE <<>>),
      map |-> Contents(r.hmap),
      open |-> r.rv > 0]

\* C8: for a stream of well-formed requests, however it is split into
\* chunks, the responses, the map contents and whether the Connection is
\* kept are those of the delivery of the whole stream to a single read.
SplitDeliveryAsSingleDelivery ==
  (ValidStream /\ iook /\ ~peerClosed /\ Quiescent)
    => Outcome = SingleDelivery(stream)

-----------------------------------------------------------------------------
(* Claims about pipelining, checked under SpecPipeline *)

\* C4: after every handler write_buffer_size is at most 4 + MAX_MSG_SIZE and
\* no frame has been stored behind the end of write_buffer.
SendBufferWithinCapacity ==
  conn.open => (conn.write_buffer_size <= BufCap /\ ~conn.overflow)

-----------------------------------------------------------------------------
(* Claims about try_one_request, checked under SpecCodec *)

\* C9: a call that finds only a proper prefix of a request (of at most
\* MAX_MSG_SIZE bytes) between start and the end of the valid bytes returns
\* 0, leaves both buffers as they were and interprets no byte at or behind
\* read_buffer + read_buffer_size.
NeedMoreOnIncomplete ==
  (codec.called /\ ~codec.framed /\ ~codec.raw /\ ~codec.complete
     /\ RequestSize(codec.args) <= MAX_MSG_SIZE)
    => (codec.rv = 0 /\ conn = codec.before)

------------------------------------------------------------------------------
(* Further claims about the map and the dispatcher, checked under SpecMap *)

IsDel(command) == Len(command) = 2 /\ command[1] = S_del

\* the step executes a del of a key whose last command was a set
DelOfSetKey == IsDel(lastCmd') /\ Described(lastCmd'[2])[1] = "set"

\* the step executes a get of a key whose last command was a del
GetOfDeletedKey ==
  /\ IsGet(lastCmd')
  /\ lastCmd'[2] \in DOMAIN shadow
  /\ shadow[lastCmd'[2]] = <<"del">>

\* C11: a del k that follows a set k v is answered "key k deleted\n", and a
\* get k that follows that del k, with no set k in between, is answered
\* "key not found\n", whatever commands on other keys and whatever rehash
\* steps lie in between.
DelRemovesKey ==
  [][ /\ DelOfSetKey =>
           lastResp'.response = S_key_sp \o lastCmd'[2] \o S_deleted
      /\ GetOfDeletedKey => lastResp'.response = S_key_not_found ]_vars

\* the statement of C11 for keys and values without zero bytes
DelRemovesKeyZeroFree ==
  [][ ZeroFreeHistory' =>
        /\ DelOfSetKey =>
             lastResp'.response = S_key_sp \o lastCmd'[2] \o S_deleted
        /\ GetOfDeletedKey => lastResp'.response = S_key_not_found ]_vars

\* the step executes a get or a del of a key that no set has made live
\* since its last del
GetOrDelOfAbsentKey ==
  /\ IsGet(lastCmd') \/ IsDel(lastCmd')
  /\ Described(lastCmd'[2]) = <<"del">>

\* C15: a get k of a key that is not live is answered "key not found\n", a
\* del k of such a key "key k not found\n", and neither changes the live
\* pairs nor h1.size + h2.size.
AbsentKeyLeftAlone ==
  [][ GetOrDelOfAbsentKey =>
        /\ lastResp'.response =
             IF IsGet(lastCmd') THEN S_key_not_found
             ELSE S_key_sp \o lastCmd'[2] \o S_not_found
        /\ LiveKeys' = LiveKeys
        /\ Contents(db') = Contents(db)
        /\ db'.h1.size + db'.h2.size = db.h1.size + db.h2.size ]_vars

\* the statement of C15 for keys and values without zero bytes
AbsentKeyLeftAloneZeroFree ==
  [][ (ZeroFreeHistory' /\ ~HasZero(lastCmd'[2]) /\ GetOrDelOfAbsentKey) =>
        /\ lastResp'.response =
             IF IsGet(lastCmd') THEN S_key_not_found
             ELSE S_key_sp \o lastCmd'[2] \o S_not_found
        /\ LiveKeys' = LiveKeys
        /\ Contents(db') = Contents(db)
        /\ db'.h1.size + db'.h2.size = db.h1.size + db.h2.size ]_vars

\* C16: whenever the secondary table is allocated, the primary table has
\* exactly twice its capacity.
PrimaryTwiceSecondary ==
  db.h2.alloc => (db.h2.mask + 1) * 2 = db.h1.mask + 1

\* a rehash is in progress after commands have run, and both tables hold
\* entries
RehashAfterCommands == RehashInProgress /\ nops > 0 /\ inserted # {}

------------------------------------------------------------------------------
(* Further claims about one connection, checked under SpecConn *)

IsSuffix(p, s) == Len(p) <= Len(s) /\ SubSeq(s, Len(s) - Len(p) + 1, Len(s)) = p

\* the try_one_request call log[i] found four valid bytes at start, and
\* they are an n_args other than 2 and 3
BadArgCount(i) ==
  /\ log[i].size - log[i].start >= 4
  /\ log[i].nStr < 2 \/ log[i].nStr > 3

------------------------------------------------------------------------------
(* Further claims about try_one_request, checked under SpecCodec *)

RECURSIVE OversizeAt(_, _)
\* the offset behind the first arg_len field with which the size of the
\* request exceeds MAX_MSG_SIZE, sofar bytes lying before the strings args
OversizeAt(args, sofar) ==
  IF args = <<>> THEN sofar
  ELSE IF sofar + 4 + Len(Head(args)) > MAX_MSG_SIZE THEN sofar + 4
  ELSE OversizeAt(Tail(args), sofar + 4 + Len(Head(args)))

\* the request of the call is larger than MAX_MSG_SIZE, its length fields
\* read as the unsigned numbers of the format
Oversized == codec.raw \/ RequestSize(codec.args) > MAX_MSG_SIZE

\* the length fields up to the one that exceeds the cap have arrived
LengthsArrived ==
  codec.cut >= (IF codec.raw THEN RequestSize(codec.args) + 4
                ELSE OversizeAt(codec.args, 4))

\* the call has answered with the frame "oversized request\n"
RejectedAsOversized ==
  IsSuffix(Frame(S_oversized_request), out \o Pending(conn))

\* C13: try_one_request returns -1 for every request whose size exceeds
\* MAX_MSG_SIZE, as soon as the length fields that show it have arrived,
\* and answers no request of at most MAX_MSG_SIZE bytes with "oversized
\* request\n".
OversizedRejectedFromLengths ==
  (codec.called /\ ~codec.framed) =>
    /\ (Oversized /\ LengthsArrived) =>
         (codec.rv = -1 /\ ~crashed /\ RejectedAsOversized)
    /\ ~Oversized => ~RejectedAsOversized

\* the statement of C13 for arg_len fields below 2^31
OversizedRejectedBelowTwoGiB ==
  (codec.raw => codec.biglen[1] < 128) => OversizedRejectedFromLengths

\* the body process_request answers a wrong arity or an unknown verb with;
\* <<>> for a command that is neither
ErrorBody(command) ==
  IF command[1] = S_set THEN (IF Len(command) # 3 THEN S_invalid_set ELSE <<>>)
  ELSE IF command[1] = S_get THEN (IF Len(command) # 2 THEN S_invalid_get ELSE <<>>)
  ELSE IF command[1] = S_del THEN (IF Len(command) # 2 THEN S_invalid_del ELSE <<>>)
  ELSE S_unknown_command

\* the call has decoded a complete request of at most MAX_MSG_SIZE bytes
\* that has a wrong arity for its verb or an unknown verb
DecodedCommandError ==
  /\ codec.called /\ ~codec.framed /\ ~codec.raw /\ codec.complete
  /\ RequestSize(codec.args) <= MAX_MSG_SIZE
  /\ ErrorBody(codec.args) # <<>>

\* C14: a command with a wrong arity for its verb or with an unknown verb
\* is recoverable: try_one_request appends the frame of "invalid number of
\* arguments ...\n" or "unknown command\n", returns the size of the request
\* (a positive count), and leaves the map and the rest of the Connection
\* as they were.
CommandErrorsRecoverable ==
  DecodedCommandError =>
    /\ codec.rv = RequestSize(codec.args)
    /\ codec.rv > 0
    /\ db = codec.hmap
    /\ ~crashed
    /\ out = <<>>
    /\ conn = AppendFrame(codec.before, ErrorBody(codec.args))

\* a get with two arguments has been answered behind an earlier request,
\* on a map that holds the key
WrongArityAnswered ==
  /\ DecodedCommandError
  /\ codec.args = <<S_get, Ka, <<49>>>>
  /\ codec.start > 0
  /\ db # EmptyHMap
  /\ Pending(conn) = Frame(S_invalid_get)

-----------------------------------------------------------------------------
(* Claims about flush_write_buffer, checked under SpecFlush *)

-----------------------------------------------------------------------------
(* Claims about the event loop, checked under SpecLoop *)

\* C18: between the events of the loop, the fd of every live Connection is
\* registered for EPOLLIN | EPOLLOUT | EPOLLET when its send buffer is not
\* empty, and for EPOLLIN | EPOLLET when it is empty.
WriteInterestIffPending ==
  \A cfd \in DOMAIN fd2Connection :
    /\ cfd \in DOMAIN epoll
    /\ epoll[cfd] = IF fd2Connection[cfd].write_buffer_size > 0
                    THEN EPOLL_RW ELSE EPOLL_R

\* one Connection holds the rest of a response the socket took half of and
\* waits for EPOLLOUT, another has written its response and waits for
\* EPOLLIN alone
ArmedAndDisarmed ==
  /\ \E cfd \in DOMAIN fd2Connection :
       /\ fd2Connection[cfd].bytes_sent > 0
       /\ epoll[cfd] = EPOLL_RW
  /\ \E cfd \in DOMAIN fd2Connection :
       /\ socks[SockOf(socks, cfd)].out # <<>>
       /\ fd2Connection[cfd].write_buffer_size = 0
       /\ epoll[cfd] = EPOLL_R

\* the step is an epoll_wait call that a signal interrupts
WaitInterrupted == pc = "wait" /\ werrno' = EINTR

\* C19: an EINTR of epoll_wait is retried: main stays at epoll_wait, with
\* every Connection, registration and socket as it was, running still
\* true and the process alive.  (The EINTR results of read() and write()
\* are retried inside read_all and flush_write_buffer.)
EintrRetried ==
  [][ WaitInterrupted =>
        /\ pc' = "wait"
        /\ ~crashed'
        /\ UNCHANGED <<running, fd2Connection, epoll, socks>> ]_vars

\* the step handles an event of the listening socket that carries
\* EPOLLERR or EPOLLHUP
ListenerErrorHandled ==
  /\ pc = "batch"
  /\ Head(events).fd = ListenFd
  /\ Head(events).events \cap {"EPOLLERR", "EPOLLHUP"} # {}
  /\ events' = Tail(events)

\* C20: when epoll reports EPOLLERR or EPOLLHUP on the listening socket,
\* the handling of that event sets running to false, so that the loop
\* stops behind the current batch.
ListenerErrorStopsLoop ==
  [][ ListenerErrorHandled => ~running' ]_vars

\* running is true in every reachable state
RunningStaysTrue == running

-----------------------------------------------------------------------------
(* Claims about the connection table, checked under SpecLoop *)

\* the step just taken met EOF, a fatal protocol error or a fatal I/O error
\* on handled.fd, or handled a hang-up reported for it
MetFatal ==
  \/ handled.kind = "error"
  \/ handled.kind = "io" /\ (handled.rv <= 0 \/ handled.wv < 0)

\* C21: between the steps of the for loop a descriptor has an entry in
\* fd2Connection if and only if it is an open accepted socket that is
\* registered with epoll_fd: a Connection is created only with a successful
\* registration, and the step that meets EOF, a fatal protocol error, a fatal
\* I/O error or a reported hang-up deregisters and closes the fd and removes
\* its Connection.
ConnectionIffRegisteredOpenSocket ==
  /\ DOMAIN fd2Connection = UsedFds(socks)
  /\ DOMAIN fd2Connection = DOMAIN epoll \ {ListenFd}
  /\ \A cfd \in DOMAIN fd2Connection : fd2Connection[cfd].fd = cfd
  /\ MetFatal =>
       /\ handled.fd \notin DOMAIN fd2Connection
       /\ handled.fd \notin DOMAIN epoll
       /\ handled.fd \notin UsedFds(socks)

\* a step has torn a connection down, which had answered a fatal protocol
\* error before, and another connection stays registered
TornDownBesideLiveConnection ==
  /\ handled.kind = "io" /\ handled.rv <= 0
  /\ DOMAIN fd2Connection # {}
  /\ \E i \in DOMAIN socks : socks[i].state = "closed" /\ socks[i].out # <<>>

-----------------------------------------------------------------------------
(* Claims about the buffers of a Connection, checked under SpecBulk *)

ReadBufferWithinCapacity ==
  /\ 0 <= conn.read_buffer_size
  /\ conn.read_buffer_size <= 4 + MAX_MSG_SIZE
  /\ Len(conn.read_buffer) <= 4 + MAX_MSG_SIZE
  /\ \A i \in DOMAIN log : 0 <= log[i].size /\ log[i].size <= 4 + MAX_MSG_SIZE

\* a read has filled the receive buffer to its end, with two complete
\* requests and the start of a third, and the compaction has kept that start
FilledAndCompacted ==
  /\ conn.open /\ ~conn.overflow
  /\ \E i \in DOMAIN log : log[i].size = 4 + MAX_MSG_SIZE /\ log[i].rv > 0
  /\ \E i \in DOMAIN log : log[i].size = 4 + MAX_MSG_SIZE /\ log[i].rv = 0
  /\ 0 < conn.read_buffer_size
  /\ conn.read_buffer_size < 4 + MAX_MSG_SIZE

-----------------------------------------------------------------------------
(* Claims about the rehash, checked under SpecMap *)

\* the capacity of the table hm_insert places a node into
PrimaryCapacity == IF db.h1.alloc THEN db.h1.mask + 1 ELSE 4

\* keys that are not stored, to insert; keys to look up and to delete
FreshKeys == {Kb, BallastKey(600)} \ LiveKeys
TouchedKeys == {Ka, Kb, BallastKey(30)}

\* the keys of the nodes in the buckets lo..hi of a table
KeysInBuckets(hashtable, lo, hi) ==
  {NodeAt(hashtable, p).key : p \in {q \in Places(hashtable) : lo <= q[1] /\ q[1] <= hi}}

\* C24: hm_insert triggers a rehash exactly when primary.size, with the
\* new entry, is at least eight times the capacity of primary and no
\* secondary table is allocated; the trigger moves the whole primary table
\* into secondary, allocates an empty primary of twice the capacity and
\* starts the cursor at 0 (so the rehash step of the same call moves the
\* nodes of the first buckets of the old table, and only them, into the new
\* primary).  hm_lookup and hm_delete never trigger a rehash.
InsertTriggersExactlyAtLoadFactor ==
  /\ \A k \in FreshKeys :
       \E m \in {hm_insert(db, Probe(k))} :
         LET due == ~db.h2.alloc /\ db.h1.size + 1 >= PrimaryCapacity * k_max_load_factor
             all == db.h1.size + 1
             step == IF all < k_resizing_work THEN all ELSE k_resizing_work
             old == h_insert(IF db.h1.alloc THEN db.h1 ELSE initHashTable(4), Probe(k))
         IN /\ (m.h1.mask + 1 # PrimaryCapacity) <=> due
            /\ due =>
                 /\ m.h1.mask + 1 = 2 * PrimaryCapacity
                 /\ m.h1.size = step
                 /\ m.h2.size = all - step
                 /\ m.h2.alloc <=> all > step
                 /\ m.h2.alloc => m.h2.mask = old.mask
                 /\ KeysIn(m.h1) \cup KeysIn(m.h2) = KeysIn(old)
                 /\ KeysInBuckets(old, 0, m.resizing_pos - 1) \subseteq KeysIn(m.h1)
                 /\ KeysIn(m.h1) \subseteq KeysInBuckets(old, 0, m.resizing_pos)
            /\ ~due => KeysIn(m.h1) \cup KeysIn(m.h2) =
                         KeysIn(db.h1) \cup KeysIn(db.h2) \cup {k}
  /\ \A k \in TouchedKeys :
       \A m \in {hm_lookup(db, Probe(k)).hmap, hm_delete(db, Probe(k)).hmap} :
         /\ m.h1.alloc = db.h1.alloc
         /\ m.h1.mask = db.h1.mask
         /\ m.h2.alloc => db.h2.alloc

\* after commands, no rehash is in progress, the cursor stands where the
\* last rehash left it, and the next insert of a new key reaches the load
\* factor with more nodes than one step moves
InsertWillTrigger ==
  /\ nops > 0
  /\ db.h1.alloc /\ ~db.h2.alloc
  /\ db.h1.size + 1 = (db.h1.mask + 1) * k_max_load_factor
  /\ db.h1.size > k_resizing_work
  /\ db.resizing_pos > 0
  /\ FreshKeys # {}

\* C25: every call of hm_insert, hm_lookup and hm_delete ends and moves at
\* most k_resizing_work nodes from secondary to primary: the loop of
\* hm_resizing ends within as many iterations as it has nodes to move and
\* buckets to pass, it moves k_resizing_work nodes or all the nodes of
\* secondary if these are fewer, and the buckets it finds empty do not
\* count.
RehashStepBounded ==
  /\ db.h2.alloc =>
       \E s \in {hm_resizing_loop(<<db, 0>>, k_resizing_work + db.h2.mask + 1)} :
         /\ s[2] >= k_resizing_work \/ s[1].h2.size = 0
         /\ ~s[1].oob
         /\ s[2] = (IF db.h2.size < k_resizing_work THEN db.h2.size ELSE k_resizing_work)
         /\ s[1].moved - db.moved = s[2]
         /\ s[1].h2.size = db.h2.size - s[2]
         /\ s[1].h1.size = db.h1.size + s[2]
  /\ \A k \in TouchedKeys :
       /\ hm_lookup(db, Probe(k)).hmap.moved - db.moved <= k_resizing_work
       /\ hm_delete(db, Probe(k)).hmap.moved - db.moved <= k_resizing_work
  /\ \A k \in FreshKeys :
       hm_insert(db, Probe(k)).moved - db.moved <= k_resizing_work

\* after commands, secondary holds more nodes than one step moves, and the
\* next step passes buckets it finds empty on its way to its last node
StepPassesEmptyBuckets ==
  /\ nops > 0
  /\ db.h2.alloc /\ db.h2.size > k_resizing_work
  /\ \E s \in {hm_resizing_loop(<<db, 0>>, k_resizing_work + db.h2.mask + 1)} :
       /\ s[2] = k_resizing_work
       /\ s[1].resizing_pos > db.resizing_pos
       /\ s[1].h2.size > 0


\* C26: a set, get or del command executed by process_request makes at
\* most one rehash step: it moves at most k_resizing_work nodes from
\* secondary to primary, also a set of a new key and a del of a stored key.
OneRehashStepPerCommand ==
  [][db'.moved - db.moved <= k_resizing_work]_vars


\* C27: when a rehash completes the cursor resizing_pos is reset to 0: in
\* every state in which no secondary table is allocated, resizing_pos = 0.
CursorZeroWithoutSecondary ==
  ~db.h2.alloc => db.resizing_pos = 0


\* the buckets of a table below index n are empty
EmptyBelow(hashtable, n) ==
  \A b \in DOMAIN hashtable.tab : b - 1 < n => hashtable.tab[b] = <<>>

\* C28: in every reachable state with secondary.size > 0, and at every
\* iteration of the loop of hm_resizing, 0 <= resizing_pos < the capacity
\* of secondary: hm_resizing never indexes secondary.table out of bounds,
\* whatever inserts, lookups and deletes (also of entries of secondary)
\* have been made.
CursorWithinSecondary ==
  /\ ~db.oob
  /\ db.h2.size > 0 =>
       /\ db.h2.alloc
       /\ 0 <= db.resizing_pos
       /\ db.resizing_pos <= db.h2.mask
       /\ EmptyBelow(db.h2, db.resizing_pos)
       /\ ~hm_resizing(db).oob
  /\ \A k \in TouchedKeys :
       /\ ~hm_lookup(db, Probe(k)).hmap.oob
       /\ ~hm_delete(db, Probe(k)).hmap.oob

\* the command that started the rehash has been followed by the del of a key
\* stored before, whose entry was in a bucket of secondary that the cursor
\* has not reached, and nodes remain in secondary
DeletedFromSecondaryAheadOfCursor ==
  /\ db.h2.size > 0
  /\ db.resizing_pos > 0
  /\ IsDel(lastCmd)
  /\ lastResp.status = "SUCCESS"
  /\ lastCmd[2] \in BallastKeys
  /\ nops = 2
  /\ BucketOf(str_hash(lastCmd[2]), db.h2.mask) > db.resizing_pos


\* n is a power of two
IsPowerOfTwo(n) == \E e \in 0..16 : n = 2 ^ e

\* C29: in every reachable state each allocated table of the HMap has a
\* capacity that is a power of two and at least 4, with mask = capacity - 1,
\* and every node stored in it is in the chain of bucket hashcode & mask,
\* also the nodes migrated from secondary to primary; no node is linked into
\* two chains.
NodesInTheirBuckets ==
  /\ \A t \in {db.h1, db.h2} :
       t.alloc =>
         /\ IsPowerOfTwo(Len(t.tab))
         /\ Len(t.tab) >= 4
         /\ t.mask = Len(t.tab) - 1
         /\ \A p \in Places(t) :
              /\ NodeAt(t, p).hashcode = str_hash(NodeAt(t, p).key)
              /\ p[1] = NodeAt(t, p).hashcode[2] % Len(t.tab)
         /\ Cardinality(Places(t)) = Cardinality(KeysIn(t))
         /\ Cardinality(Places(t)) = t.size
  /\ KeysIn(db.h1) \cap KeysIn(db.h2) = {}

\* a rehash is in progress after commands: primary holds nodes migrated
\* from secondary in several of its buckets, and a node a command inserted
MigratedAndInsertedNodes ==
  /\ nops > 0
  /\ db.h2.alloc /\ db.h2.size > 0
  /\ db.moved > 0
  /\ Cardinality({p[1] : p \in Places(db.h1)}) > db.h2.mask + 1
  /\ inserted \cap KeysIn(db.h1) # {}
  /\ BallastKeys \cap KeysIn(db.h1) # {}


\* C30: with initial capacity 4, load factor 8 and 128 moves per step, when
\* primary.size >= primary.capacity x 8 holds after a public operation of
\* the HMap, a rehash has been triggered by the time the next one returns.
\* It has been triggered already: in every state primary.size is below
\* eight times the capacity of primary, the insert that reaches the load
\* factor having moved primary into secondary before it returned, and an
\* insert, a lookup and a delete from any state leave it so.
RehashTriggeredAtLoadFactor ==
  /\ db.h1.size < PrimaryCapacity * k_max_load_factor
  /\ \A k \in FreshKeys :
       \E m \in {hm_insert(db, Probe(k))} :
         /\ m.h1.size < (m.h1.mask + 1) * k_max_load_factor
         /\ db.h1.size + 1 >= PrimaryCapacity * k_max_load_factor
              => m.h1.mask > db.h1.mask
  /\ \A k \in TouchedKeys :
       \A m \in {hm_lookup(db, Probe(k)).hmap, hm_delete(db, Probe(k)).hmap} :
         m.h1.size < (m.h1.mask + 1) * k_max_load_factor

\* the command just executed has inserted the entry with which primary
\* reached eight times its capacity: that table is now secondary, and a
\* primary of twice the capacity is being filled
LoadFactorReachedByLastInsert ==
  /\ nops > 0
  /\ Len(lastCmd) = 3 /\ lastCmd[1] = S_set
  /\ c_str(lastCmd[2]) \in inserted
  /\ db.h2.alloc
  /\ db.h1.size + db.h2.size = (db.h2.mask + 1) * k_max_load_factor
  /\ db.h1.mask = 2 * db.h2.mask + 1


-----------------------------------------------------------------------------
(* Claims about deletes and key identity, checked under SpecMap *)

\* the nodes linked into the two tables of a map
NodesOf(hmap) ==
  {NodeAt(hmap.h1, p) : p \in Places(hmap.h1)}
    \cup {NodeAt(hmap.h2, p) : p \in Places(hmap.h2)}

\* keys to delete: keys of the commands, ballast keys of every part of the
\* key range, and keys that are never set
DeleteKeys == {Ka, Kb} \cup {BallastKey(i) : i \in {0, 30, 200, 300, 510, 600}}

\* C31: hm_delete on a live key detaches that key's node from the table
\* that holds it and returns it: afterwards the node is in neither table,
\* h1.size + h2.size is less by exactly 1, and every other node is still
\* linked, with its key and value; on a key that is not live it returns
\* NULL, and the nodes and sizes are as before.
DeleteDetachesExactlyOneNode ==
  \A k \in DeleteKeys :
    \E r \in {hm_delete(db, Probe(k))} :
      IF k \in LiveKeys
      THEN /\ r.found
           /\ r.node \in NodesOf(db)
           /\ r.node.key = k
           /\ NodesOf(r.hmap) = NodesOf(db) \ {r.node}
           /\ k \notin KeysIn(r.hmap.h1) \cup KeysIn(r.hmap.h2)
           /\ r.hmap.h1.size + r.hmap.h2.size = db.h1.size + db.h2.size - 1
           /\ Cardinality(Places(r.hmap.h1)) + Cardinality(Places(r.hmap.h2))
                = Cardinality(Places(db.h1)) + Cardinality(Places(db.h2)) - 1
      ELSE /\ ~r.found
           /\ r.node = NULL
           /\ NodesOf(r.hmap) = NodesOf(db)
           /\ r.hmap.h1.size + r.hmap.h2.size = db.h1.size + db.h2.size

\* a del command has just detached a stored entry while a rehash is in
\* progress, and of the keys to delete next one is in primary behind the
\* head of its chain, one is in secondary and one is not live
DeletedDuringRehash ==
  /\ RehashInProgress
  /\ IsDel(lastCmd) /\ lastResp.status = "SUCCESS"
  /\ lastCmd[2] \in deleted
  /\ \E k \in DeleteKeys : \E p \in Places(db.h1) :
       NodeAt(db.h1, p).key = k /\ p[2] > 1
  /\ \E k \in DeleteKeys : k \in KeysIn(db.h2)
  /\ \E k \in DeleteKeys : k \notin LiveKeys


\* the values stored under key k
ValuesOf(hmap, k) == {n.value : n \in {m \in NodesOf(hmap) : m.key = k}}

\* keys of the commands and a key no command names
IdentityKeys == PoolKeys \cup {Kb}

\* C32: key identity is equality of byte strings: the entry a command
\* addresses is the entry of the key whose bytes are those of its key
\* argument, also when these hold zero bytes.  So the map stores, under each
\* key, the value of the last set of that very key and nothing for a key
\* that was not set or was deleted, and a set echoes the bytes of its key
\* and value arguments.
KeyIdentityIsByteEquality ==
  /\ \A k \in IdentityKeys :
       IF Described(k)[1] = "set"
       THEN ValuesOf(db, k) = {Described(k)[2]}
       ELSE ValuesOf(db, k) = {}
  /\ (Len(lastCmd) = 3 /\ lastCmd[1] = S_set)
       => lastResp.response = S_set_sp \o lastCmd[2] \o S_to \o lastCmd[3] \o S_nl

\* the statement of C32 for keys and values without zero bytes
KeyIdentityZeroFree == ZeroFreeHistory => KeyIdentityIsByteEquality


-----------------------------------------------------------------------------
(* Claims about the receive buffer across reads, checked under SpecConn *)

\* the valid bytes of the receive buffer
Unconsumed(c) == SubSeq(c.read_buffer, 1, c.read_buffer_size)

\* C33: behind each parse pass of read_all that ends with need-more,
\* exactly the bytes of the fully parsed requests have been removed from
\* the receive buffer: the bytes not consumed lie at offset 0 in the order
\* in which they arrived, none lost and none twice, and read_buffer_size is
\* their number.  So while the Connection lives, the valid bytes of the
\* receive buffer, followed by the bytes not yet read, are what the client
\* has sent behind the requests parsed so far.
CompactionKeepsUnconsumedBytes ==
  (conn.open /\ ~crashed) =>
    /\ \E j \in 0..Len(stream) :
         /\ \A i \in 1..j : stream[i].wf
         /\ Unconsumed(conn) \o rxq \o wire
              = WireBytes(SubSeq(stream, j + 1, Len(stream)))
    /\ (log # <<>> /\ log[Len(log)].rv = 0) =>
         conn.read_buffer_size = log[Len(log)].size - log[Len(log)].start

\* the last parse pass has parsed a request and then met the start of the
\* next one: read_all has moved these bytes to offset 0 and the Connection
\* lives
MovedPartialRequestToFront ==
  /\ conn.open /\ ~crashed
  /\ log # <<>>
  /\ log[Len(log)].rv = 0
  /\ log[Len(log)].start > 0
  /\ \E i \in DOMAIN log : log[i].rv > 0
  /\ conn.read_buffer_size > 0
  /\ conn.read_buffer_size < Len(conn.read_buffer)


-----------------------------------------------------------------------------
(* Claims about the event loop with several clients, checked under SpecLoop *)

\* the step handles an event of a client descriptor
HandlesClientEvent ==
  pc = "batch" /\ events' = Tail(events) /\ Head(events).fd # ListenFd

\* the Connections other than that of cfd, their registrations and their
\* sockets are after the step what they were before it
OthersUntouched(cfd) ==
  /\ \A g \in DOMAIN fd2Connection \ {cfd} :
       /\ g \in DOMAIN fd2Connection' /\ fd2Connection'[g] = fd2Connection[g]
       /\ g \in DOMAIN epoll' /\ epoll'[g] = epoll[g]
  /\ \A i \in DOMAIN socks :
       (socks[i].state # "open" \/ socks[i].fd # cfd) => socks'[i] = socks[i]

\* C34: faults are contained per connection: the handling of an event of
\* connection A, also of one that destroys A (fatal protocol error, EOF,
\* I/O error), leaves the buffers, offsets, registration and liveness of
\* every other connection as they were, and a protocol or I/O error on A
\* leaves the map unchanged.
FaultsContainedPerConnection ==
  [][HandlesClientEvent =>
       /\ OthersUntouched(Head(events).fd)
       /\ DOMAIN fd2Connection \ {Head(events).fd} # {} => ~crashed'
       /\ handled'.mapkept
       /\ handled'.kind = "error" => db' = db]_vars

\* the statement of C34 for the steps behind which the process runs on
FaultsContainedWhileProcessRuns ==
  [][(HandlesClientEvent /\ ~crashed') =>
       /\ OthersUntouched(Head(events).fd)
       /\ handled'.mapkept
       /\ handled'.kind = "error" => db' = db]_vars


-----------------------------------------------------------------------------
(* The event loop with one client, under fair scheduling *)

\* main waits in epoll_wait; one client may connect and send twice, and
\* no fault occurs but those of the client's own bytes
InitOneClient ==
  /\ running = TRUE
  /\ pc = "wait"
  /\ events = <<>>
  /\ fd2Connection = [x \in {} |-> NewConnection]
  /\ epoll = [x \in {ListenFd} |-> {"EPOLLIN"}]
  /\ socks = <<>>
  /\ backlog = <<>>
  /\ lerr = FALSE
  /\ werrno = 0
  /\ handled = NoHandled
  /\ budget = [connects |-> 1, sends |-> MaxLoopSends, faults |-> 0]
  /\ db = EmptyHMap
  /\ conn = NewConnection
  /\ wire = <<>>
  /\ rxq = <<>>
  /\ out = <<>>
  /\ peerClosed = FALSE
  /\ crashed = FALSE
  /\ stream = <<>>
  /\ log = <<>>
  /\ iook = TRUE
  /\ IdleMap
  /\ codec = NoCodec
  /\ flushed = NoFlush

NextOneClient ==
  \/ Connect \/ ClientSend \/ ClientShutdown
  \/ EpollWait \/ HandleListener \/ HandleClientIO

\* an event with EPOLLOUT is the next one of the batch
WritableAtHead ==
  pc = "batch" /\ ~crashed /\ "EPOLLOUT" \in Head(events).events

\* the for loop handles such an event and the socket takes all the bytes
\* it is offered (the peer reads), or the handler destroys the Connection
Drains ==
  /\ WritableAtHead
  /\ events' = Tail(events)
  /\ Head(events).fd \in DOMAIN fd2Connection'
       => fd2Connection'[Head(events).fd].write_buffer_size = 0

\* main runs on: epoll_wait returns when a descriptor is ready, and the for
\* loop handles every event of the batch (weak fairness of the handlers,
\* which are enabled exactly while pc = "batch" and the process runs); the
\* peer keeps reading (strong fairness of Drains, which is enabled exactly
\* when WritableAtHead holds)
FairLoop ==
  /\ WF_vars(EpollWait)
  /\ WF_vars(HandleListener)
  /\ []<>(pc # "batch" \/ crashed)
  /\ []<>WritableAtHead => []<><<Drains>>_vars

SpecLoopFair == InitOneClient /\ [][NextOneClient]_vars /\ FairLoop

\* C35: every response frame appended to the send buffer of a Connection is
\* in the end written in full to the socket, provided the peer keeps
\* reading and the Connection is not destroyed: pending bytes lead to an
\* empty send buffer, or to the end of the Connection.
StagedResponsesFlushed ==
  \A cfd \in ClientFds :
    (cfd \in DOMAIN fd2Connection /\ fd2Connection[cfd].write_buffer_size > 0)
      ~> \/ cfd \notin DOMAIN fd2Connection
         \/ fd2Connection[cfd].write_buffer_size = 0
         \/ crashed


\* a write has taken a part of the staged responses and stopped, the rest
\* is pending on a live Connection whose fd is armed for write readiness
PartFlushedAndArmed ==
  \E cfd \in DOMAIN fd2Connection :
    /\ fd2Connection[cfd].bytes_sent > 0
    /\ fd2Connection[cfd].bytes_sent < fd2Connection[cfd].write_buffer_size
    /\ "EPOLLOUT" \in epoll[cfd]
    /\ pc = "wait"


-----------------------------------------------------------------------------
(* Claims about the teardown of a connection, checked under SpecConn *)

\* read_all has met a fatal protocol error behind a request it had parsed,
\* and main has destroyed the Connection
DestroyedOnFatalBehindRequest ==
  /\ ~conn.open /\ ~crashed
  /\ log # <<>>
  /\ log[Len(log)].rv < 0
  /\ out \o Pending(conn) # Frame(S_invalid_command)
  /\ out \o Pending(conn) # Frame(S_oversized_request)

\* C36: when a fatal protocol error follows well-formed requests on a
\* connection, the responses staged for these requests and then the final
\* error frame have been written to the socket when the Connection is
\* closed, also when the socket is not writable at the moment the error is
\* detected: no byte of the send buffer is pending when the Connection is
\* destroyed.
StagedResponsesWrittenBeforeClose ==
  DestroyedOnFatalBehindRequest => Pending(conn) = <<>>

\* the statement of C36 for sockets that take all the bytes of every write
StagedResponsesWrittenWhenWritable ==
  (DestroyedOnFatalBehindRequest /\ iook) => Pending(conn) = <<>>


-----------------------------------------------------------------------------
(* Claims about the room of the receive buffer, checked under SpecBulk *)

\* C37: read_all never calls read with a free tail of length zero:
\* whenever the parser reports need-more for the request at offset 0,
\* read_buffer_size < 4 + MAX_MSG_SIZE, and so is read_buffer_size of a
\* live Connection behind every read_all.  A result of 0 of read thus
\* means that the peer has closed: a Connection whose last parse pass
\* asked for more bytes is destroyed only behind the peer's close or an
\* I/O error.
ReadHasRoom ==
  /\ \A i \in DOMAIN log :
       (log[i].rv = 0 /\ log[i].start = 0) => log[i].size < 4 + MAX_MSG_SIZE
  /\ (conn.open /\ ~crashed) => conn.read_buffer_size < 4 + MAX_MSG_SIZE
  /\ (~conn.open /\ ~crashed /\ iook /\ (log = <<>> \/ log[Len(log)].rv = 0))
       => peerClosed

\* the parser has asked for more bytes of a request of which more than
\* MAX_MSG_SIZE / 2 bytes are buffered at offset 0, and the Connection lives
NeedMoreNearCapacity ==
  /\ conn.open /\ ~crashed
  /\ log # <<>>
  /\ log[Len(log)].rv = 0
  /\ log[Len(log)].start = 0
  /\ 2 * log[Len(log)].size > MAX_MSG_SIZE


-----------------------------------------------------------------------------
(* Claims about the events of one batch, checked under SpecLoop *)

\* C38: within one batch of readiness events, no step of a later event
\* uses a Connection that has been destroyed, and an event reported for a
\* descriptor that has been closed since is not applied to another
\* Connection that was accepted in the same batch under the same descriptor
\* number.  Every event of a client descriptor that waits in the batch
\* belongs to a Connection that lives, the one of the very connection the
\* event was reported for, and the batch holds one event per descriptor.
EventsReachTheirConnection ==
  pc = "batch" =>
    /\ \A k \in DOMAIN events :
         events[k].fd # ListenFd =>
           /\ events[k].fd \in DOMAIN fd2Connection
           /\ fd2Connection[events[k].fd].open
           /\ events[k].fd \in UsedFds(socks)
           /\ SockOf(socks, events[k].fd) = events[k].sock
    /\ \A j, k \in DOMAIN events : events[j].fd = events[k].fd => j = k

\* the step just taken has destroyed a Connection and closed its
\* descriptor; the event of the listening socket waits in the same batch
\* with a connection in the listen queue, which accept() will hand the
\* descriptor number just closed
ClosedFdReusedInBatch ==
  /\ pc = "batch"
  /\ handled.kind # "none"
  /\ handled.fd \notin DOMAIN fd2Connection
  /\ \E k \in DOMAIN events : events[k].fd = ListenFd
  /\ backlog # <<>>
  /\ LowestFree(socks) = handled.fd


-----------------------------------------------------------------------------
(* Claims about secondary during a rehash, checked under SpecMap *)

\* C39: while a rehash is in progress every bucket of secondary below
\* resizing_pos is empty, and a command that neither ends the rehash nor
\* triggers the next one leaves it so: it links no entry into secondary (a
\* key it stores anew is in primary), secondary.size does not increase
\* and resizing_pos does not decrease.
SecondaryOnlyDrains ==
  [][ /\ db.h2.alloc => EmptyBelow(db.h2, db.resizing_pos)
      /\ db.h2.alloc /\ db'.h2.alloc /\ db'.h1.mask = db.h1.mask =>
           /\ EmptyBelow(db'.h2, db'.resizing_pos)
           /\ db'.h2.mask = db.h2.mask
           /\ db'.h2.size <= db.h2.size
           /\ db'.resizing_pos >= db.resizing_pos
           /\ KeysIn(db'.h2) \subseteq KeysIn(db.h2)
           /\ (inserted' \ inserted) \cap KeysIn(db'.h2) = {}
           /\ (inserted' \ inserted) \subseteq KeysIn(db'.h1) ]_vars

\* the command just executed has stored a new key while the rehash was in
\* progress: the two tables hold more entries than secondary held when the
\* rehash was triggered, the entry is in primary, and secondary has nodes
\* left behind a cursor that has moved on
InsertedWhileRehashing ==
  /\ nops > 0
  /\ Len(lastCmd) = 3 /\ lastCmd[1] = S_set
  /\ lastResp.status = "SUCCESS"
  /\ c_str(lastCmd[2]) \in inserted
  /\ db.h2.alloc /\ db.h2.size > 0
  /\ db.resizing_pos > 0
  /\ db.h1.size + db.h2.size > (db.h2.mask + 1) * k_max_load_factor
  /\ c_str(lastCmd[2]) \in KeysIn(db.h1)
  /\ c_str(lastCmd[2]) \notin KeysIn(db.h2)
====
